---------------------------- MODULE Spec2Model ----------------------------
(***************************************************************************)
(* Lowering of MIR terminators to low-level blocks, as done by             *)
(* MirContext::trans_block / trans_terminator in                           *)
(* src/librustc_trans/mir/block.rs.                                        *)
(*                                                                         *)
(* The state is the function-lowering context (the landing-pad cache, the  *)
(* personality slot, the shared unreachable block, the locals) plus a      *)
(* record `last` of what the terminator lowering in progress has emitted.  *)
(* Blocks are lowered one after the other: BeginBlock positions the        *)
(* builder at a block and lowers its statements, one Trans* action per     *)
(* terminator kind lowers its terminator.                                  *)
(***************************************************************************)
EXTENDS Integers, Sequences, FiniteSets, TLC

\* Number of MIR basic blocks of the function being lowered.
NumBlocks == 3

\* Largest number of matched values of a non-boolean SwitchInt.
MaxSwitchValues == 1

\* mir::RETURN_POINTER, the local holding the function's return value.
RETURN_POINTER == 0

Blocks == 0 .. (NumBlocks - 1)

\* Option<T>: None is the empty sequence, Some(x) the one-element sequence.
None == << >>
Some(x) == << x >>
IsSome(o) == o # << >>
Unwrap(o) == o[1]
OptionOf(S) == {None} \cup {Some(x) : x \in S}

VARIABLES
    msvc,              \* base::wants_msvc_seh(sess): the funclet discipline
    cleanup_kinds,     \* per block: cleanup_kinds[bb].funclet_bb(bb)
    landing_pads,      \* self.landing_pads: Option<BasicBlockRef> per block
    llpersonalityslot, \* self.llpersonalityslot: Option<ValueRef>
    unreachable_blk,   \* self.unreachable_block: Option<BasicBlockRef>
    locals,            \* self.locals: the slot of each local
    next_bb,           \* the next block trans_block is called for
    cur,               \* Some(bb) while bb's terminator is still to be lowered
    aborted,           \* a bug!/span_bug! has ended the compilation
    built,             \* how many landing pads / slots / unreachable blocks
                       \* have been constructed so far
    last               \* what the current terminator lowering did

vars == << msvc, cleanup_kinds, landing_pads, llpersonalityslot,
           unreachable_blk, locals, next_bb, cur, aborted, built, last >>

-----------------------------------------------------------------------------
(* Low-level blocks and values are 4-tuples <<kind, i, j, k>>.             *)

\* this.blocks[bb]: the low-level block realised for MIR block bb.
blocks(bb) == << "bb", bb, 0, 0 >>

\* funclet.cleanuppad() of the funclet the block lies in: there is one only
\* under the funclet discipline and inside a cleanup region.
cleanup_pad(bb) ==
    IF msvc /\ IsSome(cleanup_kinds[bb])
    THEN Some(<< "cleanuppad", Unwrap(cleanup_kinds[bb]), 0, 0 >>)
    ELSE None

\* Funclet maps: a block is in no region, heads a region, or is internal to
\* the region of a head.
FuncletMaps ==
    { f \in [Blocks -> OptionOf(Blocks)] :
        \A b \in Blocks : IsSome(f[b]) => f[Unwrap(f[b])] = f[b] }

\* Under the funclet discipline the pad of every funclet head is inserted
\* before any block is lowered; under the table-based one none is.
InitLandingPads(m, ck) ==
    [ b \in Blocks |->
        IF m /\ ck[b] = Some(b) THEN Some(<< "funclet", b, 0, 0 >>) ELSE None ]

\* An instruction: an opcode and its operands (blocks and values).
Ins(op, x) == [ op |-> op, x |-> x ]

-----------------------------------------------------------------------------
(* The lowering context threaded through one terminator lowering: the      *)
(* mutable fields of MirContext and the record of what was emitted.        *)

\* The fields of MirContext that lowering mutates.
Fields ==
    [ landing_pads      |-> landing_pads,
      llpersonalityslot |-> llpersonalityslot,
      unreachable_blk   |-> unreachable_blk,
      locals            |-> locals,
      built             |-> built ]

\* The context in which the terminator of bb is lowered, given the fields.
CtxOf(bb, f) ==
    [ bb                |-> bb,
      landing_pads      |-> f.landing_pads,
      llpersonalityslot |-> f.llpersonalityslot,
      unreachable_blk   |-> f.unreachable_blk,
      locals            |-> f.locals,
      built             |-> f.built,
      code              |-> (blocks(bb) :> << >>),  \* instructions per block
      emitted           |-> 0,       \* number of instructions emitted
      created           |-> << >>,   \* blocks made by new_block, in order
      allocas           |-> << >>,   \* stack slots allocated
      warnings          |-> << >>,   \* spans of the warnings emitted
      resolved          |-> << >>,   \* the calls of lltarget, in order
      retdests          |-> << >>,   \* the calls of make_return_dest
      reads             |-> {},      \* locals whose slot was read
      abort             |-> "" ]

NewCtx(bb) == CtxOf(bb, Fields)

Ok(c) == c.abort = ""

\* bug! / span_bug!: the lowering stops here.
Bug(c, msg) == IF Ok(c) THEN [c EXCEPT !.abort = msg] ELSE c

\* Append an instruction at the end of block b.
Emit(c, b, i) ==
    IF ~Ok(c) THEN c
    ELSE [c EXCEPT !.code =
                     IF b \in DOMAIN @ THEN [@ EXCEPT ![b] = Append(@, i)]
                     ELSE @ @@ (b :> << i >>),
                   !.emitted = @ + 1]

\* self.new_block(name)
new_block(c, id) ==
    IF ~Ok(c) THEN c
    ELSE [c EXCEPT !.created = Append(@, id),
                   !.code = @ @@ (id :> << >>)]

\* bcx.alloca(ty, name, None)
alloca(c, v) ==
    IF ~Ok(c) THEN c ELSE [c EXCEPT !.allocas = Append(@, v)]

\* A get_personality_slot that allocates a slot at every use.
get_personality_slot_fresh(c) ==
    [ c    |-> [alloca(c, << "personalityslot", c.built.slots, 0, 0 >>)
                  EXCEPT !.llpersonalityslot =
                           Some(<< "personalityslot", c.built.slots, 0, 0 >>),
                         !.built.slots = @ + 1],
      slot |-> << "personalityslot", c.built.slots, 0, 0 >> ]

\* self.get_personality_slot(bcx): returns the context and the slot.
get_personality_slot(c) ==
    IF IsSome(c.llpersonalityslot)
    THEN [ c |-> c, slot |-> Unwrap(c.llpersonalityslot) ]
    ELSE [ c    |-> [alloca(c, << "personalityslot", c.built.slots, 0, 0 >>)
                       EXCEPT !.llpersonalityslot =
                                Some(<< "personalityslot", c.built.slots, 0, 0 >>),
                              !.built.slots = @ + 1],
           slot |-> << "personalityslot", c.built.slots, 0, 0 >> ]

\* landing_pad_uncached once the personality slot ps is at hand: start the
\* slot's lifetime, store the payload and branch on to the target.
landing_pad_body(ps, id, t) ==
    [ c  |-> [Emit(Emit(Emit(ps.c, id, Ins("lifetime_start", << ps.slot >>)),
                        id, Ins("store", << ps.slot >>)),
                   id, Ins("br", << blocks(t) >>))
                EXCEPT !.built.pads[t] = @ + 1],
      ll |-> Some(id) ]

\* A pad made on first use under the funclet discipline as well.
landing_pad_uncached_any(c, t) ==
    landing_pad_body(
      get_personality_slot(
        Emit(Emit(new_block(c, << "cleanup", t, c.built.pads[t], 0 >>),
                  << "cleanup", t, c.built.pads[t], 0 >>,
                  Ins("landing_pad", << >>)),
             << "cleanup", t, c.built.pads[t], 0 >>,
             Ins("set_cleanup", << >>))),
      << "cleanup", t, c.built.pads[t], 0 >>, t)

\* self.landing_pad_uncached(target_bb) for the pad of MIR block t.
landing_pad_uncached(c, t) ==
    IF msvc THEN [ c |-> Bug(c, "landing pad was not inserted?"), ll |-> None ]
    ELSE landing_pad_body(
           get_personality_slot(
             Emit(Emit(new_block(c, << "cleanup", t, c.built.pads[t], 0 >>),
                       << "cleanup", t, c.built.pads[t], 0 >>,
                       Ins("landing_pad", << >>)),
                  << "cleanup", t, c.built.pads[t], 0 >>,
                  Ins("set_cleanup", << >>))),
           << "cleanup", t, c.built.pads[t], 0 >>, t)

\* self.landing_pads[target_bb] = Some(landing_pad)
cache_pad(r, target_bb) ==
    IF Ok(r.c)
    THEN [ c  |-> [r.c EXCEPT !.landing_pads[target_bb] = r.ll], ll |-> r.ll ]
    ELSE r

\* A lookup that never finds the cached pad.
landing_pad_to_nocache(c, target_bb) ==
    cache_pad(landing_pad_uncached(c, target_bb), target_bb)

\* self.landing_pad_to(target_bb)
landing_pad_to(c, target_bb) ==
    IF IsSome(c.landing_pads[target_bb])
    THEN [ c |-> c, ll |-> c.landing_pads[target_bb] ]
    ELSE cache_pad(landing_pad_uncached(c, target_bb), target_bb)

\* self.unreachable_block()
unreachable_block(c) ==
    IF IsSome(c.unreachable_blk)
    THEN [ c |-> c, ll |-> Unwrap(c.unreachable_blk) ]
    ELSE [ c  |-> [Emit(new_block(c, << "unreachable", c.built.unreach, 0, 0 >>),
                        << "unreachable", c.built.unreach, 0, 0 >>,
                        Ins("unreachable", << >>))
                     EXCEPT !.unreachable_blk =
                              Some(<< "unreachable", c.built.unreach, 0, 0 >>),
                            !.built.unreach = @ + 1],
           ll |-> << "unreachable", c.built.unreach, 0, 0 >> ]

-----------------------------------------------------------------------------
(* The funclet-aware branch helpers of trans_terminator.                   *)

\* What one call of lltarget did: the edge, the successor it returned, the
\* funclet-exit mark, the pad cached for the target before the call, the
\* blocks created and instructions emitted before it, and the site that
\* asked ("br": funclet_br, "block": llblock).
Resolution(c0, target, ll, ret, site) ==
    [ target |-> target, ll |-> ll, cleanupret |-> ret,
      cached |-> c0.landing_pads[target], site |-> site,
      created_before |-> Len(c0.created), emitted_before |-> c0.emitted ]

\* The result of lltarget, entered in the list of resolutions.
resolved_as(c0, r, ret, target, site) ==
    IF Ok(r.c)
    THEN [ c   |-> [r.c EXCEPT !.resolved =
                      Append(@, Resolution(c0, target, r.ll, ret, site))],
           ll  |-> r.ll, ret |-> ret ]
    ELSE [ c   |-> [r.c EXCEPT !.resolved =
                      Append(@, Resolution(c0, target, None, ret, site))],
           ll  |-> None, ret |-> ret ]

\* A resolver that takes two blocks of one funclet for blocks of two.
lltarget_nosame(c, target, site) ==
    IF ~Ok(c) THEN [ c |-> c, ll |-> None, ret |-> FALSE ]
    ELSE CASE ~IsSome(cleanup_kinds[c.bb]) /\ ~IsSome(cleanup_kinds[target]) ->
                resolved_as(c, [ c |-> c, ll |-> Some(blocks(target)) ], FALSE,
                            target, site)
           [] IsSome(cleanup_kinds[c.bb]) /\ IsSome(cleanup_kinds[target])
              /\ ~msvc ->
                resolved_as(c, [ c |-> c, ll |-> Some(blocks(target)) ], FALSE,
                            target, site)
           [] ~IsSome(cleanup_kinds[c.bb]) /\ IsSome(cleanup_kinds[target]) ->
                resolved_as(c, landing_pad_to(c, target), FALSE, target, site)
           [] IsSome(cleanup_kinds[c.bb]) /\ ~IsSome(cleanup_kinds[target]) ->
                resolved_as(c, [ c |-> Bug(c, "jump out of cleanup?"),
                                 ll |-> None ], FALSE, target, site)
           [] OTHER ->
                resolved_as(c, landing_pad_to(c, target), TRUE, target, site)

\* A resolver that lets a branch leave a cleanup region.
lltarget_out(c, target, site) ==
    IF ~Ok(c) THEN [ c |-> c, ll |-> None, ret |-> FALSE ]
    ELSE IF IsSome(cleanup_kinds[target])
            /\ (~IsSome(cleanup_kinds[c.bb])
                \/ (msvc /\ cleanup_kinds[c.bb] # cleanup_kinds[target]))
    THEN resolved_as(c, landing_pad_to(c, target),
                     IsSome(cleanup_kinds[c.bb]), target, site)
    ELSE resolved_as(c, [ c |-> c, ll |-> Some(blocks(target)) ], FALSE,
                     target, site)

\* A resolver that takes every edge for an ordinary branch.
lltarget_plain(c, target, site) ==
    IF ~Ok(c) THEN [ c |-> c, ll |-> None, ret |-> FALSE ]
    ELSE resolved_as(c, [ c |-> c, ll |-> Some(blocks(target)) ], FALSE,
                     target, site)

\* The closure lltarget: (successor, is_cleanupret).
lltarget(c, target, site) ==
    IF ~Ok(c) THEN [ c |-> c, ll |-> None, ret |-> FALSE ]
    ELSE CASE ~IsSome(cleanup_kinds[c.bb]) /\ ~IsSome(cleanup_kinds[target]) ->
                resolved_as(c, [ c |-> c, ll |-> Some(blocks(target)) ], FALSE,
                            target, site)
           [] IsSome(cleanup_kinds[c.bb]) /\ IsSome(cleanup_kinds[target])
              /\ (cleanup_kinds[c.bb] = cleanup_kinds[target] \/ ~msvc) ->
                resolved_as(c, [ c |-> c, ll |-> Some(blocks(target)) ], FALSE,
                            target, site)
           [] ~IsSome(cleanup_kinds[c.bb]) /\ IsSome(cleanup_kinds[target]) ->
                resolved_as(c, landing_pad_to(c, target), FALSE, target, site)
           [] IsSome(cleanup_kinds[c.bb]) /\ ~IsSome(cleanup_kinds[target]) ->
                resolved_as(c, [ c |-> Bug(c, "jump out of cleanup?"),
                                 ll |-> None ], FALSE, target, site)
           [] OTHER ->
                resolved_as(c, landing_pad_to(c, target), TRUE, target, site)

\* llblock once the edge is resolved as r: the trampoline, if one is needed.
trampoline_for(r, bb, target) ==
    IF ~Ok(r.c) THEN [ c |-> r.c, ll |-> None ]
    ELSE IF r.ret
    THEN [ c  |-> Emit(new_block(r.c, << "trampoline", bb, target,
                                         Len(r.c.created) >>),
                       << "trampoline", bb, target, Len(r.c.created) >>,
                       Ins("cleanup_ret",
                           << Unwrap(cleanup_pad(bb)), Unwrap(r.ll) >>)),
           ll |-> Some(<< "trampoline", bb, target, Len(r.c.created) >>) ]
    ELSE [ c |-> r.c, ll |-> r.ll ]

\* The closure llblock: a block handle for the edge to target.
llblock(c, target) == trampoline_for(lltarget(c, target, "block"), c.bb, target)

\* A funclet_br that emits no branch.
branch_for_none(r, b, bb) == r.c

\* funclet_br once the edge is resolved as r.
branch_for(r, b, bb) ==
    IF ~Ok(r.c) THEN r.c
    ELSE IF r.ret
    THEN Emit(r.c, b, Ins("cleanup_ret",
                          << Unwrap(cleanup_pad(bb)), Unwrap(r.ll) >>))
    ELSE Emit(r.c, b, Ins("br", << Unwrap(r.ll) >>))

\* The closure funclet_br: end block b with the branch to target.
funclet_br(c, b, target) == branch_for(lltarget(c, target, "br"), b, c.bb)

-----------------------------------------------------------------------------
(* Values, local slots, ABI slots and return destinations.                 *)

Val(tag, i) == << tag, i, 0, 0 >>

\* LocalRef: Operand(None), Operand(Some(op)) or Lvalue(addr).
Pending       == [ k |-> "OperandNone", v |-> Val("undef", 0) ]
Operand(v)    == [ k |-> "OperandSome", v |-> v ]
Lvalue(v)     == [ k |-> "Lvalue", v |-> v ]

\* ArgType of a return slot: ignored, direct, direct through a cast, indirect.
RetModes == { "ignore", "direct", "cast", "indirect" }
is_ignore(ret)   == ret = "ignore"
is_indirect(ret) == ret = "indirect"
has_cast(ret)    == ret = "cast"

\* enum ReturnDest
Nothing                == [ k |-> "Nothing", v |-> Val("undef", 0), index |-> 0 ]
Store(dst)             == [ k |-> "Store", v |-> dst, index |-> 0 ]
IndirectOperand(tmp, i) == [ k |-> "IndirectOperand", v |-> tmp, index |-> i ]
DirectOperand(i)       == [ k |-> "DirectOperand", v |-> Val("undef", 0), index |-> i ]

\* self.store_return(bcx, dest, ret_ty, op), bcx positioned in block b.
store_return(c, b, dest, ret, op) ==
    IF ~Ok(c) THEN c
    ELSE CASE dest.k = "Nothing" -> c
           [] dest.k = "Store" -> Emit(c, b, Ins("store", << op, dest.v >>))
           [] dest.k = "IndirectOperand" ->
                LET c1 == Emit(c, b, Ins("load", << dest.v >>))
                IN  [c1 EXCEPT !.locals[dest.index] =
                                  Operand(Val("loaded", dest.v[2]))]
           [] dest.k = "DirectOperand" ->
                IF has_cast(ret)
                THEN LET tmp == Val("tmp_ret", Len(c.allocas))
                         c1 == alloca(c, tmp)
                         c2 == Emit(c1, b, Ins("store", << op, tmp >>))
                         c3 == Emit(c2, b, Ins("load", << tmp >>))
                     IN  [c3 EXCEPT !.locals[dest.index] =
                                       Operand(Val("loaded", tmp[2]))]
                ELSE [c EXCEPT !.locals[dest.index] = Operand(op)]

\* The resolver's result: the context, the argument list, the ReturnDest.
Dest(c, llargs, rd) == [ c |-> c, llargs |-> llargs, rd |-> rd ]

\* A destination with a memory address: the hidden pointer of an indirect
\* return, or the target of a plain store.
dest_in_memory(c, ret, llargs, addr, packed) ==
    IF is_indirect(ret)
    THEN IF packed
         THEN Dest(Bug(c, "can't directly store to unaligned value"),
                   llargs, Nothing)
         ELSE Dest(c, Append(llargs, addr), Nothing)
    ELSE Dest(c, llargs, Store(addr))

\* A resolver that captures the result of an indirect return directly and
\* passes no hidden pointer for an operand temporary.
make_return_dest_direct(c, dest, ret, llargs, is_intrinsic) ==
    IF ~Ok(c) \/ is_ignore(ret) THEN Dest(c, llargs, Nothing)
    ELSE IF dest.k = "Local"
    THEN CASE c.locals[dest.index].k = "Lvalue" ->
                dest_in_memory([c EXCEPT !.reads = @ \cup {dest.index}], ret,
                               llargs, c.locals[dest.index].v, FALSE)
           [] c.locals[dest.index].k = "OperandNone" ->
                Dest([c EXCEPT !.reads = @ \cup {dest.index}], llargs,
                     DirectOperand(dest.index))
           [] OTHER ->
                Dest(Bug([c EXCEPT !.reads = @ \cup {dest.index}],
                         "lvalue local already assigned to"),
                     llargs, Nothing)
    ELSE dest_in_memory(c, ret, llargs, Val("place", 0), dest.packed)

\* A resolver that gives an intrinsic no scratch slot.
make_return_dest_noscratch(c, dest, ret, llargs, is_intrinsic) ==
    IF ~Ok(c) \/ is_ignore(ret) THEN Dest(c, llargs, Nothing)
    ELSE IF dest.k = "Local"
    THEN CASE c.locals[dest.index].k = "Lvalue" ->
                dest_in_memory([c EXCEPT !.reads = @ \cup {dest.index}], ret,
                               llargs, c.locals[dest.index].v, FALSE)
           [] c.locals[dest.index].k = "OperandNone" ->
                IF is_indirect(ret)
                THEN Dest(alloca([c EXCEPT !.reads = @ \cup {dest.index}],
                                 Val("tmp_ret", Len(c.allocas))),
                          Append(llargs, Val("tmp_ret", Len(c.allocas))),
                          IndirectOperand(Val("tmp_ret", Len(c.allocas)),
                                          dest.index))
                ELSE Dest([c EXCEPT !.reads = @ \cup {dest.index}], llargs,
                          DirectOperand(dest.index))
           [] OTHER ->
                Dest(Bug([c EXCEPT !.reads = @ \cup {dest.index}],
                         "lvalue local already assigned to"),
                     llargs, Nothing)
    ELSE dest_in_memory(c, ret, llargs, Val("place", 0), dest.packed)

\* A resolver that captures the result in a local already assigned to.
make_return_dest_reassign(c, dest, ret, llargs, is_intrinsic) ==
    IF ~Ok(c) \/ is_ignore(ret) THEN Dest(c, llargs, Nothing)
    ELSE IF dest.k = "Local"
    THEN IF c.locals[dest.index].k = "Lvalue"
         THEN dest_in_memory([c EXCEPT !.reads = @ \cup {dest.index}], ret,
                             llargs, c.locals[dest.index].v, FALSE)
         ELSE IF is_indirect(ret) \/ is_intrinsic
         THEN Dest(alloca([c EXCEPT !.reads = @ \cup {dest.index}],
                          Val("tmp_ret", Len(c.allocas))),
                   IF is_indirect(ret)
                   THEN Append(llargs, Val("tmp_ret", Len(c.allocas)))
                   ELSE llargs,
                   IndirectOperand(Val("tmp_ret", Len(c.allocas)),
                                   dest.index))
         ELSE Dest([c EXCEPT !.reads = @ \cup {dest.index}], llargs,
                   DirectOperand(dest.index))
    ELSE dest_in_memory(c, ret, llargs, Val("place", 0), dest.packed)

\* self.make_return_dest(bcx, dest, fn_ret_ty, llargs, is_intrinsic).
\* dest is a local (k = "Local") or another lvalue of the given alignment
\* (k = "Place").
make_return_dest(c, dest, ret, llargs, is_intrinsic) ==
    IF ~Ok(c) \/ is_ignore(ret) THEN Dest(c, llargs, Nothing)
    ELSE IF dest.k = "Local"
    THEN CASE c.locals[dest.index].k = "Lvalue" ->
                dest_in_memory([c EXCEPT !.reads = @ \cup {dest.index}], ret,
                               llargs, c.locals[dest.index].v, FALSE)
           [] c.locals[dest.index].k = "OperandNone" ->
                IF is_indirect(ret)
                THEN Dest(alloca([c EXCEPT !.reads = @ \cup {dest.index}],
                                 Val("tmp_ret", Len(c.allocas))),
                          Append(llargs, Val("tmp_ret", Len(c.allocas))),
                          IndirectOperand(Val("tmp_ret", Len(c.allocas)),
                                          dest.index))
                ELSE IF is_intrinsic
                THEN Dest(alloca([c EXCEPT !.reads = @ \cup {dest.index}],
                                 Val("tmp_ret", Len(c.allocas))),
                          llargs,
                          IndirectOperand(Val("tmp_ret", Len(c.allocas)),
                                          dest.index))
                ELSE Dest([c EXCEPT !.reads = @ \cup {dest.index}], llargs,
                          DirectOperand(dest.index))
           [] OTHER ->
                Dest(Bug([c EXCEPT !.reads = @ \cup {dest.index}],
                         "lvalue local already assigned to"),
                     llargs, Nothing)
    ELSE dest_in_memory(c, ret, llargs, Val("place", 0), dest.packed)

\* The invoke of do_call once the unwind edge is resolved as uw: the invoke
\* ends block b, and the result is stored at the end of the normal successor.
invoke_to(uw, b, ret, fn_ptr, llargs, ret_bcx, destination) ==
    IF ~Ok(uw.c) THEN uw.c
    ELSE IF IsSome(destination)
    THEN store_return(Emit(uw.c, b, Ins("invoke",
                             << fn_ptr, ret_bcx, Unwrap(uw.ll) >> \o llargs)),
                      ret_bcx, Unwrap(destination).rd, ret,
                      Val("invokeret", 0))
    ELSE Emit(uw.c, b, Ins("invoke",
                 << fn_ptr, ret_bcx, Unwrap(uw.ll) >> \o llargs))

\* do_call with a cleanup block, the normal successor being rb.ll.
invoke_from(rb, b, ret, fn_ptr, llargs, destination, cleanup) ==
    invoke_to(llblock(rb.c, cleanup), b, ret, fn_ptr, llargs, rb.ll,
              destination)

\* A do_call that never invokes.
do_call_plain(c, b, ret, fn_ptr, llargs, destination, cleanup) ==
    IF ~Ok(c) THEN c
    ELSE IF IsSome(destination)
    THEN funclet_br(store_return(Emit(c, b, Ins("call", << fn_ptr >> \o llargs)),
                                 b, Unwrap(destination).rd, ret,
                                 Val("llret", 0)),
                    b, Unwrap(destination).target)
    ELSE Emit(Emit(c, b, Ins("call", << fn_ptr >> \o llargs)),
              b, Ins("unreachable", << >>))

\* The closure do_call.  b is the block bcx is positioned in; destination is
\* None or Some([rd, target]); cleanup is None or Some(bb).
do_call(c, b, ret, fn_ptr, llargs, destination, cleanup) ==
    IF ~Ok(c) THEN c
    ELSE IF IsSome(cleanup)
    THEN IF IsSome(destination)
         THEN invoke_from([ c |-> c,
                            ll |-> blocks(Unwrap(destination).target) ],
                          b, ret, fn_ptr, llargs, destination, Unwrap(cleanup))
         ELSE invoke_from(unreachable_block(c), b, ret, fn_ptr, llargs,
                          destination, Unwrap(cleanup))
    ELSE IF IsSome(destination)
    THEN funclet_br(store_return(Emit(c, b, Ins("call", << fn_ptr >> \o llargs)),
                                 b, Unwrap(destination).rd, ret,
                                 Val("llret", 0)),
                    b, Unwrap(destination).target)
    ELSE Emit(Emit(c, b, Ins("call", << fn_ptr >> \o llargs)),
              b, Ins("unreachable", << >>))

-----------------------------------------------------------------------------
(* trans_terminator, one operator per terminator kind.  Each takes the     *)
(* context of the block being lowered and returns the context afterwards.  *)

Src(c) == blocks(c.bb)

\* The table-based Resume once the personality slot ps is at hand.
resume_from(ps, b, t) ==
    IF ~t.custom_unwind_resume
    THEN Emit(Emit(Emit(ps.c, b, Ins("load", << ps.slot >>)),
                   b, Ins("lifetime_end", << ps.slot >>)),
              b, Ins("resume", << Val("lp", 0) >>))
    ELSE Emit(Emit(Emit(Emit(Emit(ps.c, b, Ins("load", << ps.slot >>)),
                             b, Ins("lifetime_end", << ps.slot >>)),
                        b, Ins("extract_value", << Val("lp", 0) >>)),
                   b, Ins("call", << Val("fn:eh_unwind_resume", 0),
                                     Val("exc_ptr", 0) >>)),
              b, Ins("unreachable", << >>))

\* TerminatorKind::Resume
trans_resume(c, t) ==
    IF IsSome(cleanup_pad(c.bb))
    THEN Emit(c, Src(c), Ins("cleanup_ret", << Unwrap(cleanup_pad(c.bb)) >>))
    ELSE resume_from(get_personality_slot(c), Src(c), t)

\* TerminatorKind::Goto
trans_goto(c, t) == funclet_br(c, Src(c), t.target)

\* r extended by one more resolved block handle h.
handles_add(r, h) ==
    IF Ok(h.c) THEN [ c |-> h.c, lls |-> Append(r.lls, Unwrap(h.ll)) ]
    ELSE [ c |-> h.c, lls |-> << >> ]

\* llblock applied to a list of targets, in order: r holds the context and
\* the handles so far.
RECURSIVE llblocks(_, _)
llblocks(r, targets) ==
    IF targets = << >> THEN r
    ELSE llblocks(handles_add(r, llblock(r.c, Head(targets))), Tail(targets))

\* The (value, block) pairs of a switch, flattened.
RECURSIVE Cases(_, _)
Cases(values, lls) ==
    IF values = << >> \/ lls = << >> THEN << >>
    ELSE << Val("const", Head(values)), Head(lls) >>
         \o Cases(Tail(values), Tail(lls))

\* A two-way branch without the polarity fix-up.
cond_br_for_plain(r, b, values) ==
    IF ~Ok(r.c) THEN r.c
    ELSE Emit(r.c, b, Ins("cond_br", << Val("discr", 0), r.lls[1], r.lls[2] >>))

\* The two-way branch of a boolean switch: r.lls = << lltrue, llfalse >>.
cond_br_for(r, b, values) ==
    IF ~Ok(r.c) THEN r.c
    ELSE IF values = << 0 >>
    THEN Emit(r.c, b, Ins("cond_br", << Val("discr", 0), r.lls[2], r.lls[1] >>))
    ELSE Emit(r.c, b, Ins("cond_br", << Val("discr", 0), r.lls[1], r.lls[2] >>))

\* The n-way switch: r.lls = << otherwise, target 1, ..., target n >>.
switch_for(r, b, values) ==
    IF ~Ok(r.c) THEN r.c
    ELSE Emit(r.c, b, Ins("switch", << Val("discr", 0), Head(r.lls) >>
                                    \o Cases(values, Tail(r.lls))))

\* TerminatorKind::SwitchInt
trans_switch_int(c, t) ==
    IF t.bool
    THEN cond_br_for(llblocks([ c |-> c, lls |-> << >> ], t.targets),
                     Src(c), t.values)
    ELSE switch_for(
           llblocks([ c |-> c, lls |-> << >> ],
                    << t.targets[Len(t.targets)] >>
                    \o SubSeq(t.targets, 1,
                              IF Len(t.values) < Len(t.targets) - 1
                              THEN Len(t.values) ELSE Len(t.targets) - 1)),
           Src(c), t.values)

\* The return local is read only by a Return that returns a value.
return_reads(c, ret) ==
    IF is_ignore(ret) \/ is_indirect(ret) THEN c
    ELSE [c EXCEPT !.reads = @ \cup {RETURN_POINTER}]

\* The value return of a Return, the return local's slot being read.
return_value(c, b, ret, slot) ==
    IF slot.k = "OperandNone" THEN Bug(c, "use of return before def")
    ELSE IF has_cast(ret)
    THEN IF slot.k = "Lvalue"
         THEN Emit(Emit(Emit(c, b, Ins("pointercast", << slot.v >>)),
                        b, Ins("load", << Val("cast", slot.v[2]) >>)),
                   b, Ins("ret", << Val("loaded", slot.v[2]) >>))
         ELSE Emit(Emit(Emit(Emit(alloca(c, Val("ret", Len(c.allocas))), b,
                                  Ins("store", << slot.v,
                                               Val("ret", Len(c.allocas)) >>)),
                             b, Ins("pointercast",
                                    << Val("ret", Len(c.allocas)) >>)),
                        b, Ins("load", << Val("cast", Len(c.allocas)) >>)),
                   b, Ins("ret", << Val("loaded", Len(c.allocas)) >>))
    ELSE IF slot.k = "Lvalue"
    THEN Emit(Emit(c, b, Ins("load", << slot.v >>)),
              b, Ins("ret", << Val("loaded", slot.v[2]) >>))
    ELSE Emit(c, b, Ins("ret", << slot.v >>))

\* A Return that returns the value of the return local whatever the slot.
trans_return_unconditional(c, t) ==
    return_value([c EXCEPT !.reads = @ \cup {RETURN_POINTER}], Src(c), t.ret,
                 c.locals[RETURN_POINTER])

\* TerminatorKind::Return; t.ret is self.fn_ty.ret.
trans_return(c, t) ==
    IF is_ignore(t.ret) \/ is_indirect(t.ret)
    THEN Emit(return_reads(c, t.ret), Src(c), Ins("ret_void", << >>))
    ELSE return_value(return_reads(c, t.ret), Src(c), t.ret,
                      c.locals[RETURN_POINTER])

\* TerminatorKind::Unreachable
trans_unreachable(c, t) == Emit(c, Src(c), Ins("unreachable", << >>))

\* Destructor arguments with the metadata of every value that has some.
drop_args_extra(t) ==
    IF t.has_extra
    THEN << Val("llval", 0), Val("llextra", 0) >>
    ELSE << Val("llval", 0) >>

\* The arguments of the destructor call.
drop_args(t) ==
    IF t.glue # "dynamic" /\ t.has_extra
    THEN << Val("llval", 0), Val("llextra", 0) >>
    ELSE << Val("llval", 0) >>

\* A Drop that calls the destructor whatever the glue.
trans_drop_glue(c, t) ==
    do_call(c, Src(c), "ignore",
            IF t.glue = "dynamic" THEN Val("fn:vtable_destructor", 0)
            ELSE Val("fn:drop_in_place", 0),
            drop_args(t),
            Some([ rd |-> Nothing, target |-> t.target ]), t.unwind)

\* TerminatorKind::Drop.  t.glue: "nop" (DropGlue(_, None)), "static" or
\* "dynamic" (ty::TyDynamic); t.has_extra: lvalue.has_extra().
trans_drop(c, t) ==
    IF t.glue = "nop" THEN funclet_br(c, Src(c), t.target)
    ELSE do_call(c, Src(c), "ignore",
                 IF t.glue = "dynamic" THEN Val("fn:vtable_destructor", 0)
                 ELSE Val("fn:drop_in_place", 0),
                 drop_args(t),
                 Some([ rd |-> Nothing, target |-> t.target ]), t.unwind)

-----------------------------------------------------------------------------
(* TerminatorKind::Assert                                                  *)

\* An assert message: BoundsCheck carries len and index, each a constant
\* (Some(n)) or a run-time value (None).
Msg(k, len, index) == [ k |-> k, len |-> len, index |-> index ]

\* A translated operand of a BoundsCheck.
OperandVal(o, name) == IF IsSome(o) THEN Val("const", Unwrap(o))
                       ELSE Val(name, 0)

\* const_err: whether the ErrKind is known at compile time.
const_err(msg) ==
    CASE msg.k = "BoundsCheck" -> IsSome(msg.len) /\ IsSome(msg.index)
      [] msg.k = "MathNeg" \/ msg.k = "Math" -> TRUE
      [] OTHER -> FALSE

\* A carve-out for a condition that is a constant only.
assert_const_cond_known(t) ==
    IF t.cond = "dyn" THEN None
    ELSE IF ~t.check_overflow /\ t.msg.k = "MathNeg" THEN Some(t.expected)
    ELSE Some(t.cond = "true")

\* const_cond after the negation-overflow carve-out.
assert_const_cond(t) ==
    IF ~t.check_overflow /\ t.msg.k = "MathNeg" THEN Some(t.expected)
    ELSE IF t.cond = "dyn" THEN None ELSE Some(t.cond = "true")

\* A diagnostic for every assert that is known to fail.
warns_always(t) == assert_const_cond(t) = Some(~t.expected)

\* "If we know we always panic, and the error message is also constant, then
\* we can produce a warning."
warns(t) == assert_const_cond(t) = Some(~t.expected) /\ const_err(t.msg)

\* An assert that never skips the panic block.
assert_skips_never(t) == FALSE

\* An assert that skips the panic block whenever the condition is known.
assert_skips_const(t) == assert_const_cond(t) # None

\* "Don't translate the panic block if success is known."
assert_skips(t) == assert_const_cond(t) = Some(t.expected)

\* The arguments of the panic entry point.
panic_args(c, t) ==
    IF t.msg.k = "BoundsCheck"
    THEN << Val("panic_bounds_check_loc", c.bb),
            OperandVal(t.msg.index, "index"), OperandVal(t.msg.len, "len") >>
    ELSE << Val("panic_loc", c.bb) >>

\* The panic entry point.
panic_fn(t) ==
    IF t.msg.k = "BoundsCheck" THEN Val("fn:panic_bounds_check", 0)
    ELSE Val("fn:panic", 0)

\* diag.emit() at the terminator's span.
warn(c, t) ==
    IF Ok(c) /\ warns(t) THEN [c EXCEPT !.warnings = Append(@, c.bb)] ELSE c

\* The conditional branch to the panic block, the success edge being resolved
\* as tg, and the panic call in the panic block.
assert_branch(tg, bb, panic, t) ==
    IF ~Ok(tg.c) THEN tg.c
    ELSE do_call(
           warn(Emit(new_block(tg.c, panic), blocks(bb),
                     IF t.expected
                     THEN Ins("cond_br", << Val("expect", 0), Unwrap(tg.ll),
                                            panic >>)
                     ELSE Ins("cond_br", << Val("expect", 0), panic,
                                            Unwrap(tg.ll) >>)),
                t),
           panic, "ignore", panic_fn(t), panic_args(tg.c, t), None, t.cleanup)

\* The panic block made after the success edge is resolved as tg.
assert_panic(tg, bb, t) ==
    assert_branch(tg, bb, << "panic", bb, 0, Len(tg.c.created) >>, t)

trans_assert(c, t) ==
    IF assert_skips(t) THEN funclet_br(c, Src(c), t.target)
    ELSE assert_panic(
           llblock(Emit(c, Src(c),
                        Ins("call", << Val("fn:llvm.expect.i1", 0),
                                       IF t.cond = "dyn" THEN Val("cond", 0)
                                       ELSE Val("const", IF t.cond = "true"
                                                         THEN 1 ELSE 0),
                                       Val("const", IF t.expected THEN 1
                                                    ELSE 0) >>)),
                   t.target),
           c.bb, t)

-----------------------------------------------------------------------------
(* TerminatorKind::Call: argument marshaling.                              *)

\* OperandRef: val is "Immediate", "Pair", "Ref" or "RefPacked"; fat says
\* the type is a fat pointer; constant says the MIR operand is a constant;
\* is_tuple says the type is a tuple, whose field types are fields.
Op(val, fat, constant, id) ==
    [ val |-> val, fat |-> fat, constant |-> constant, id |-> id,
      is_tuple |-> FALSE, fields |-> << >> ]

\* A field type of a tuple: a fat pointer, or a bool held as i8.
Field(fat, isbool) == [ fat |-> fat, isbool |-> isbool ]

\* The operand of a tuple with the given field types.
Tuple(val, fields) ==
    [ val |-> val, fat |-> FALSE, constant |-> FALSE, id |-> 0,
      is_tuple |-> TRUE, fields |-> fields ]

\* ArgType of an argument slot of fn_ty.args.
Slot(mode, pad, isbool) == [ mode |-> mode, pad |-> pad, isbool |-> isbool ]

\* What the marshaling loop carries: the context, the block bcx is at,
\* llargs, next_idx, llfn, whether def is InstanceDef::Virtual, fn_ty.args.
Marshal(c, b, llargs, idx, llfn, virtual, abi) ==
    [ c |-> c, b |-> b, llargs |-> llargs, idx |-> idx, llfn |-> llfn,
      virtual |-> virtual, abi |-> abi ]

arg_push(a, v) == [a EXCEPT !.llargs = Append(@, v)]
arg_emit(a, ins) == [a EXCEPT !.c = Emit(@, a.b, ins)]
arg_bug(a, why) == [a EXCEPT !.c = Bug(@, why)]

\* "Have to load the argument, maybe while casting it", then llargs.push.
arg_load(a, llval, by_ref, arg) ==
    IF by_ref /\ arg.mode # "indirect"
    THEN IF arg.isbool
         THEN arg_push(arg_emit(arg_emit(a, Ins("load_range_assert",
                                                << llval >>)),
                                Ins("trunc", << Val("loaded", llval[2]) >>)),
                       Val("trunc", llval[2]))
         ELSE IF arg.mode = "cast"
         THEN arg_push(arg_emit(arg_emit(a, Ins("pointercast", << llval >>)),
                                Ins("load", << Val("cast", llval[2]) >>)),
                       Val("loaded", llval[2]))
         ELSE arg_push(arg_emit(a, Ins("load", << llval >>)),
                       Val("loaded", llval[2]))
    ELSE arg_push(a, llval)

\* "Force by-ref if we have to load through a cast pointer."
arg_value(a, op, arg) ==
    CASE op.val \in { "Immediate", "Pair" } ->
           IF arg.mode \in { "indirect", "cast" }
           THEN arg_load(
                  arg_emit([a EXCEPT !.c = alloca(@, Val("arg", Len(@.allocas)))],
                           Ins("store", << Val("op", op.id),
                                           Val("arg", Len(a.c.allocas)) >>)),
                  Val("arg", Len(a.c.allocas)), TRUE, arg)
           ELSE arg_load(a, Val("op", op.id), FALSE, arg)
      [] op.val = "RefPacked" /\ arg.mode = "indirect" ->
           arg_load(
             arg_emit([a EXCEPT !.c = alloca(@, Val("arg", Len(@.allocas)))],
                      Ins("memcpy", << Val("arg", Len(a.c.allocas)),
                                       Val("op", op.id) >>)),
             Val("arg", Len(a.c.allocas)), TRUE, arg)
      [] OTHER -> arg_load(a, Val("op", op.id), TRUE, arg)

\* trans_argument from "let arg = &fn_ty.args[*next_idx]" on, the slot being
\* arg and next_idx already advanced.
trans_argument_slot(a, op, arg) ==
    IF arg.mode = "ignore"
    THEN IF arg.pad THEN arg_push(a, Val("undef", 0)) ELSE a
    ELSE arg_value(IF arg.pad THEN arg_push(a, Val("undef", 0)) ELSE a,
                   op, arg)

\* trans_argument for an operand that is not split.
trans_argument_one(a, op) ==
    IF ~Ok(a.c) THEN a
    ELSE IF a.idx >= Len(a.abi) THEN arg_bug(a, "index out of bounds")
    ELSE trans_argument_slot([a EXCEPT !.idx = @ + 1], op, a.abi[a.idx + 1])

\* "Treat the values in a fat pointer separately": the method is looked up
\* in the vtable when the fat pointer is the first argument of a virtual call.
arg_llfn(a) ==
    IF a.idx = 0 /\ a.virtual
    THEN [ arg_emit(arg_emit(a, Ins("get_fn", << Val("meta", 0) >>)),
                    Ins("pointercast", << Val("llmeth", 0) >>))
           EXCEPT !.llfn = Some(Val("llmeth", 0)) ]
    ELSE a

\* A trans_argument that gives a fat pointer one slot.
trans_argument_whole(a, op) == trans_argument_one(a, op)

\* self.trans_argument(bcx, op, llargs, fn_ty, next_idx, llfn, def)
trans_argument(a, op) ==
    IF ~Ok(a.c) THEN a
    ELSE IF op.val = "Pair" /\ op.fat
    THEN trans_argument_one(
           trans_argument_one(arg_llfn(a),
                              Op("Immediate", FALSE, FALSE, op.id)),
           Op("Immediate", FALSE, FALSE, op.id + 1))
    ELSE trans_argument_one(a, op)

\* One field of a by-ref tuple: a fat pointer is loaded as a pair.
untupled_ref_field(a, f, n) ==
    IF f.fat
    THEN trans_argument(arg_emit(arg_emit(a, Ins("struct_gep", << Val("tup", n) >>)),
                                 Ins("load_fat_ptr", << Val("field", n) >>)),
                        Op("Pair", TRUE, FALSE, 10 * (n + 1)))
    ELSE trans_argument(arg_emit(a, Ins("struct_gep", << Val("tup", n) >>)),
                        Op("Ref", FALSE, FALSE, 10 * (n + 1)))

\* One field of an immediate or pair tuple: "Truncate bools to i1".
untupled_imm_field(a, f, n, whole) ==
    IF whole
    THEN IF f.isbool
         THEN trans_argument(arg_emit(arg_emit(a, Ins("extract_value",
                                                      << Val("tup", n) >>)),
                                      Ins("trunc", << Val("elem", n) >>)),
                             Op("Immediate", f.fat, FALSE, 10 * (n + 1)))
         ELSE trans_argument(arg_emit(a, Ins("extract_value",
                                             << Val("tup", n) >>)),
                             Op("Immediate", f.fat, FALSE, 10 * (n + 1)))
    ELSE IF f.isbool
    THEN trans_argument(arg_emit(a, Ins("trunc", << Val("elem", n) >>)),
                        Op("Immediate", f.fat, FALSE, 10 * (n + 1)))
    ELSE trans_argument(a, Op("Immediate", f.fat, FALSE, 10 * (n + 1)))

\* The loops of trans_arguments_untupled over arg_types, from field n on.
RECURSIVE untupled_fields(_, _, _, _)
untupled_fields(a, tup, fields, n) ==
    IF fields = << >> \/ ~Ok(a.c) THEN a
    ELSE untupled_fields(
           CASE tup.val \in { "Ref", "RefPacked" } ->
                  untupled_ref_field(a, Head(fields), n)
             [] tup.val = "Immediate" ->
                  untupled_imm_field(a, Head(fields), n, TRUE)
             [] OTHER ->
                  IF n >= 2 THEN arg_bug(a, "index out of bounds")
                  ELSE untupled_imm_field(a, Head(fields), n, FALSE),
           tup, Tail(fields), n + 1)

\* A trans_arguments_untupled that passes the tuple as one argument.
trans_arguments_whole(a, tup) == trans_argument(a, tup)

\* self.trans_arguments_untupled(bcx, operand, llargs, fn_ty, next_idx, ..):
\* tup.fields are the tuple's field types.
trans_arguments_untupled(a, tup) ==
    IF ~tup.is_tuple
    THEN arg_bug(a, "bad final argument to rust-call fn")
    ELSE untupled_fields(a, tup, tup.fields, 0)

\* One step of "for arg in first_args".
first_arg(a, op, is_shuffle) ==
    IF is_shuffle /\ a.idx = 2
    THEN IF op.constant
         THEN [ arg_push(a, Val("const_op", op.id)) EXCEPT !.idx = @ + 1 ]
         ELSE arg_bug(a, "shuffle indices must be constant")
    ELSE trans_argument(a, op)

\* "for arg in first_args { .. }"
RECURSIVE first_args(_, _, _)
first_args(a, args, is_shuffle) ==
    IF args = << >> \/ ~Ok(a.c) THEN a
    ELSE first_args(first_arg(a, Head(args), is_shuffle), Tail(args),
                    is_shuffle)

\* All the arguments of a call: the rust-call tuple is split off the end.
trans_arguments(a, t) ==
    IF t.rust_call /\ t.args # << >>
    THEN trans_arguments_untupled(
           first_args(a, SubSeq(t.args, 1, Len(t.args) - 1), FALSE),
           t.args[Len(t.args)])
    ELSE first_args(a, t.args, t.callee = "simd_shuffle")

-----------------------------------------------------------------------------
(* TerminatorKind::Call                                                    *)

\* self.trans_transmute_into(bcx, src, dst)
trans_transmute_into(c, b, src, dst) ==
    Emit(Emit(c, b, Ins("pointercast", << dst >>)),
         b, Ins("store", << Val("op", src.id), Val("cast", dst[2]) >>))

\* self.trans_transmute(bcx, src, dst)
trans_transmute(c, b, src, dst) ==
    IF dst.k = "Local"
    THEN CASE c.locals[dst.index].k = "Lvalue" ->
                trans_transmute_into([c EXCEPT !.reads = @ \cup {dst.index}],
                                     b, src, c.locals[dst.index].v)
           [] c.locals[dst.index].k = "OperandNone" ->
                [ Emit(trans_transmute_into(
                         alloca([c EXCEPT !.reads = @ \cup {dst.index}],
                                Val("transmute_temp", Len(c.allocas))),
                         b, src, Val("transmute_temp", Len(c.allocas))),
                       b, Ins("load", << Val("transmute_temp",
                                             Len(c.allocas)) >>))
                  EXCEPT !.locals[dst.index] =
                           Operand(Val("loaded", Len(c.allocas))) ]
           [] OTHER ->
                IF c.locals[dst.index].v = Val("zst", 0)
                THEN [c EXCEPT !.reads = @ \cup {dst.index}]
                ELSE Bug([c EXCEPT !.reads = @ \cup {dst.index}],
                         "assigning to initialized SSAtemp")
    ELSE trans_transmute_into(c, b, src, Val("place", 0))

\* Whether the callee is an intrinsic, by name.
is_intrinsic_callee(t) ==
    t.callee \in { "transmute", "drop_in_place", "intrinsic", "simd_shuffle" }

\* The intrinsic expansion with its destination dest, then the reload of an
\* indirect operand and the branch to the continuation.
intrinsic_emit(c, b, dest, llargs, rd, t) ==
    IF IsSome(t.dest)
    THEN funclet_br(
           IF rd.k = "IndirectOperand"
           THEN store_return(Emit(c, b, Ins("intrinsic", << dest >> \o llargs)),
                             b, rd, t.ret, rd.v)
           ELSE Emit(c, b, Ins("intrinsic", << dest >> \o llargs)),
           b, Unwrap(t.dest).target)
    ELSE Emit(Emit(c, b, Ins("intrinsic", << dest >> \o llargs)),
              b, Ins("unreachable", << >>))

\* An intrinsic path that hands the expansion an undefined destination
\* whenever the return is not indirect.
intrinsic_call_undef(a, rd, t) ==
    IF is_indirect(t.ret)
    THEN IF a.llargs = << >> THEN Bug(a.c, "index out of bounds")
         ELSE intrinsic_emit(a.c, a.b, Head(a.llargs), Tail(a.llargs), rd, t)
    ELSE CASE rd.k \in { "Nothing", "IndirectOperand", "Store" } ->
                intrinsic_emit(a.c, a.b, Val("undef", 0), a.llargs, rd, t)
           [] OTHER ->
                Bug(a.c, "Cannot use direct operand with an intrinsic call")

\* "if intrinsic.is_some() && intrinsic != Some("drop_in_place")"
intrinsic_call(a, rd, t) ==
    IF is_indirect(t.ret)
    THEN IF a.llargs = << >> THEN Bug(a.c, "index out of bounds")
         ELSE intrinsic_emit(a.c, a.b, Head(a.llargs), Tail(a.llargs), rd, t)
    ELSE CASE rd.k = "Nothing" ->
                intrinsic_emit(a.c, a.b, Val("undef", 0), a.llargs, rd, t)
           [] rd.k \in { "IndirectOperand", "Store" } ->
                intrinsic_emit(a.c, a.b, rd.v, a.llargs, rd, t)
           [] OTHER ->
                Bug(a.c, "Cannot use direct operand with an intrinsic call")

\* The call once its arguments are marshaled.
call_finish(a, rd, t) ==
    IF ~Ok(a.c) THEN a.c
    ELSE IF t.callee \in { "intrinsic", "simd_shuffle" }
    THEN intrinsic_call(a, rd, t)
    ELSE IF a.llfn = None /\ t.callee = "fnptr"
    THEN Bug(a.c, "no llfn for call")
    ELSE do_call(a.c, a.b, t.ret,
                 IF IsSome(a.llfn) THEN Unwrap(a.llfn)
                 ELSE Val("fn:get_fn", 0),
                 a.llargs,
                 IF IsSome(t.dest)
                 THEN Some([ rd |-> rd, target |-> Unwrap(t.dest).target ])
                 ELSE None,
                 t.cleanup)

\* The call once its return destination is resolved as d.
call_args(d, b, t) ==
    call_finish(trans_arguments(
                  Marshal(d.c, b, d.llargs, 0,
                          IF t.callee = "fnptr" THEN Some(Val("callee", 0))
                          ELSE None,
                          t.callee = "virtual", t.abi),
                  t),
                d.rd, t)

\* The result d of make_return_dest for return slot ret, entered in the
\* list of return-destination resolutions.
dest_noted(d, ret) ==
    [d EXCEPT !.c.retdests =
        Append(@, [ ret |-> ret, rd |-> d.rd, llargs |-> d.llargs,
                    ok |-> Ok(d.c) ])]

trans_call(c, t) ==
    CASE t.callee = "transmute" ->
           IF t.dest = None THEN Bug(c, "unwrap of a None destination")
           ELSE IF t.args = << >> THEN Bug(c, "index out of bounds")
           ELSE funclet_br(trans_transmute(c, Src(c), t.args[1],
                                           Unwrap(t.dest).lv),
                           Src(c), Unwrap(t.dest).target)
      [] t.callee = "nop_drop" ->
           IF t.dest = None THEN Bug(c, "unwrap of a None destination")
           ELSE funclet_br(c, Src(c), Unwrap(t.dest).target)
      [] OTHER ->
           IF IsSome(t.dest)
           THEN call_args(dest_noted(make_return_dest(c, Unwrap(t.dest).lv,
                                                      t.ret, << >>,
                                                      is_intrinsic_callee(t)),
                                     t.ret),
                          Src(c), t)
           ELSE call_args(Dest(c, << >>, Nothing), Src(c), t)

-----------------------------------------------------------------------------
(* The terminators a block may end in.                                     *)

Locals == { RETURN_POINTER }

GotoTerms == { [ kind |-> "Goto", target |-> t ] : t \in Blocks }

\* The matched values of a non-boolean switch over n values: 5, 6, ...
SwitchValues(n) == [ i \in 1 .. n |-> i + 4 ]

SwitchTerms ==
    { [ kind |-> "SwitchInt", bool |-> TRUE, values |-> << v >>,
        targets |-> ts ] : v \in { 0, 1 }, ts \in [ 1 .. 2 -> Blocks ] }
    \cup
    UNION { { [ kind |-> "SwitchInt", bool |-> FALSE,
                values |-> SwitchValues(n), targets |-> ts ] :
                ts \in [ 1 .. (n + 1) -> Blocks ] } :
            n \in 1 .. MaxSwitchValues }

ReturnTerms == { [ kind |-> "Return", ret |-> r ] : r \in RetModes }

UnreachableTerms == { [ kind |-> "Unreachable" ] }

ResumeTerms ==
    { [ kind |-> "Resume", custom_unwind_resume |-> u ] : u \in BOOLEAN }

DropTermsOf(glues, targets, unwinds) ==
    { [ kind |-> "Drop", glue |-> g[1], has_extra |-> g[2], target |-> t,
        unwind |-> u ] : g \in glues, t \in targets, u \in unwinds }

\* Every destructor kind; a no-op and a static destructor with every edge.
DropTerms ==
    DropTermsOf({ << "nop", FALSE >>, << "static", FALSE >>,
                  << "static", TRUE >>, << "dynamic", TRUE >> },
                { 0 }, { None })
    \cup DropTermsOf({ << "nop", FALSE >>, << "static", FALSE >> },
                     Blocks, OptionOf(Blocks))

AssertMsgs ==
    { Msg("BoundsCheck", l, i) : l \in { None, Some(3) },
                                 i \in { None, Some(7) } }
    \cup { Msg(k, None, None) :
             k \in { "MathNeg", "Math", "GeneratorResumedAfterReturn",
                     "GeneratorResumedAfterPanic" } }

\* check_overflow is the session's overflow-checking flag; it is read for a
\* negation-overflow message only.
AssertTermsOf(expecteds, msgs, targets, cleanups) ==
    { a \in { [ kind |-> "Assert", cond |-> cd, expected |-> e, msg |-> m,
                target |-> t, cleanup |-> u, check_overflow |-> o ] :
                cd \in { "true", "false", "dyn" }, e \in expecteds,
                m \in msgs, t \in targets, u \in cleanups, o \in BOOLEAN } :
        a.check_overflow \/ a.msg.k = "MathNeg" }

\* Every message, condition and polarity; a constant bounds check with
\* every edge.
AssertTerms ==
    AssertTermsOf(BOOLEAN, AssertMsgs, { 0 }, { None })
    \cup AssertTermsOf({ TRUE }, { Msg("BoundsCheck", Some(3), Some(7)) },
                       Blocks, OptionOf(Blocks))

\* Destinations of a call: the return local or another lvalue.
CallDests ==
    { [ k |-> "Local", index |-> RETURN_POINTER, packed |-> FALSE ],
      [ k |-> "Place", index |-> 0, packed |-> FALSE ],
      [ k |-> "Place", index |-> 0, packed |-> TRUE ] }

\* Optional (destination, continuation) pairs.
CallEdges(lvs, targets) ==
    OptionOf({ [ lv |-> lv, target |-> t ] : lv \in lvs, t \in targets })

Direct == Slot("direct", FALSE, FALSE)

Shape(callee, rust_call, args, abi) ==
    [ callee |-> callee, rust_call |-> rust_call, args |-> args, abi |-> abi ]

\* A callee of the given kind with a single argument.
CalleeShapes(callees) ==
    { Shape(f, FALSE, << Op("Immediate", FALSE, FALSE, 1) >>,
            << IF f = "fn" THEN Slot("indirect", TRUE, FALSE) ELSE Direct >>) :
        f \in callees }

\* Argument lists with the ABI slots the classifier gives them.
ArgShapes ==
    { Shape("fn", FALSE, << >>, << >>),
      Shape("fn", FALSE, << Op("Ref", FALSE, FALSE, 1),
                            Op("RefPacked", FALSE, FALSE, 2) >>,
            << Slot("cast", FALSE, FALSE), Slot("indirect", FALSE, FALSE) >>),
      Shape("fn", TRUE, << Op("Immediate", FALSE, FALSE, 1),
                           Tuple("Ref", << Field(TRUE, FALSE),
                                           Field(FALSE, TRUE) >>) >>,
            << Slot("ignore", FALSE, FALSE), Direct, Direct,
               Slot("direct", FALSE, TRUE) >>),
      Shape("fn", TRUE, << Tuple("Pair", << Field(FALSE, FALSE),
                                            Field(FALSE, TRUE) >>) >>,
            << Direct, Slot("direct", FALSE, TRUE) >>),
      Shape("fn", TRUE, << Tuple("Immediate", << Field(FALSE, TRUE) >>) >>,
            << Slot("direct", FALSE, TRUE) >>),
      Shape("fn", TRUE, << Tuple("Pair", << Field(FALSE, FALSE),
                                            Field(FALSE, FALSE) >>) >>,
            << Slot("cast", FALSE, FALSE), Slot("indirect", TRUE, FALSE) >>),
      Shape("fn", TRUE, << Tuple("Immediate", << Field(FALSE, FALSE),
                                                 Field(FALSE, TRUE),
                                                 Field(FALSE, FALSE) >>) >>,
            << Slot("ignore", TRUE, FALSE), Slot("direct", FALSE, TRUE),
               Direct >>),
      Shape("fnptr", FALSE, << Op("Pair", TRUE, FALSE, 1) >>,
            << Direct, Direct >>),
      Shape("virtual", FALSE, << Op("Pair", TRUE, FALSE, 1) >>,
            << Direct, Direct >>),
      Shape("virtual", FALSE, << Op("Immediate", FALSE, FALSE, 1),
                                 Op("Pair", TRUE, FALSE, 2) >>,
            << Direct, Direct, Direct >>),
      Shape("simd_shuffle", FALSE, << Op("Immediate", FALSE, FALSE, 1),
                                      Op("Immediate", FALSE, FALSE, 2),
                                      Op("Immediate", FALSE, TRUE, 3) >>,
            << Direct, Direct, Direct >>),
      Shape("simd_shuffle", FALSE, << Op("Immediate", FALSE, FALSE, 1),
                                      Op("Immediate", FALSE, FALSE, 2),
                                      Op("Immediate", FALSE, FALSE, 3) >>,
            << Direct, Direct, Direct >>) }

CallTermsOf(shapes, rets, dests, cleanups) ==
    { [ kind |-> "Call", callee |-> s.callee, rust_call |-> s.rust_call,
        args |-> s.args, abi |-> s.abi, ret |-> r, dest |-> d,
        cleanup |-> u ] :
        s \in shapes, r \in rets, d \in dests, u \in cleanups }

\* Every return slot with every destination, for an ordinary callee and an
\* intrinsic; every argument list with a direct and an indirect return;
\* every callee kind with every edge (a destructor returns unit, which the
\* ABI ignores).
CallTerms ==
    CallTermsOf(CalleeShapes({ "fn", "intrinsic" }), RetModes,
                CallEdges(CallDests, { 0 }), { None })
    \cup
    CallTermsOf(ArgShapes, { "direct", "indirect" },
                CallEdges({ l \in CallDests : ~l.packed }, { 0 }), { None })
    \cup
    CallTermsOf(CalleeShapes({ "fn", "intrinsic", "transmute" }),
                { "direct", "indirect" },
                CallEdges({ l \in CallDests : l.k = "Place" /\ ~l.packed },
                          Blocks),
                OptionOf(Blocks))
    \cup
    CallTermsOf(CalleeShapes({ "nop_drop", "drop_in_place" }), { "ignore" },
                CallEdges({ l \in CallDests : l.k = "Place" /\ ~l.packed },
                          Blocks),
                OptionOf(Blocks))

-----------------------------------------------------------------------------
(* The state machine.                                                      *)

NoLast ==
    [ bb |-> 0, term |-> [ kind |-> "None" ], code |-> << >>,
      created |-> << >>, allocas |-> << >>, warnings |-> << >>,
      resolved |-> << >>, retdests |-> << >>, reads |-> {}, abort |-> "",
      pre |-> << >> ]

InitLocals ==
    [ Locals -> { Pending, Operand(Val("zst", 0)), Lvalue(Val("local", 0)) } ]

Init ==
    /\ msvc \in BOOLEAN
    /\ cleanup_kinds \in FuncletMaps
    /\ landing_pads = InitLandingPads(msvc, cleanup_kinds)
    /\ llpersonalityslot = None
    /\ unreachable_blk = None
    /\ locals \in InitLocals
    /\ next_bb = 0
    /\ cur = None
    /\ aborted = FALSE
    /\ built = [ pads |-> [ b \in Blocks |-> 0 ], slots |-> 0, unreach |-> 0 ]
    /\ last = NoLast

\* trans_block up to the terminator: position the builder at the next block
\* and lower its statements, which may define locals still pending.
BeginBlock ==
    /\ ~aborted
    /\ cur = None
    /\ next_bb < NumBlocks
    /\ cur' = Some(next_bb)
    /\ next_bb' = next_bb + 1
    /\ \E defined \in SUBSET { l \in Locals : locals[l].k = "OperandNone" } :
         locals' = [ l \in Locals |->
                       IF l \in defined THEN Operand(Val("stmt", l))
                       ELSE locals[l] ]
    /\ last' = NoLast
    /\ UNCHANGED << msvc, cleanup_kinds, landing_pads, llpersonalityslot,
                    unreachable_blk, aborted, built >>

\* The context after a terminator lowering becomes the state.
Commit(t, c) ==
    /\ landing_pads' = c.landing_pads
    /\ llpersonalityslot' = c.llpersonalityslot
    /\ unreachable_blk' = c.unreachable_blk
    /\ locals' = c.locals
    /\ built' = c.built
    /\ aborted' = ~Ok(c)
    /\ cur' = None
    /\ last' = [ bb |-> c.bb, term |-> t, code |-> c.code,
                 created |-> c.created, allocas |-> c.allocas,
                 warnings |-> c.warnings, resolved |-> c.resolved,
                 retdests |-> c.retdests, reads |-> c.reads,
                 abort |-> c.abort, pre |-> Fields ]
    /\ UNCHANGED << msvc, cleanup_kinds, next_bb >>

Ready == ~aborted /\ IsSome(cur)

TransGoto ==
    Ready /\ \E t \in GotoTerms : Commit(t, trans_goto(NewCtx(Unwrap(cur)), t))

TransSwitchInt ==
    Ready /\ \E t \in SwitchTerms :
               Commit(t, trans_switch_int(NewCtx(Unwrap(cur)), t))

TransReturn ==
    Ready /\ \E t \in ReturnTerms :
               Commit(t, trans_return(NewCtx(Unwrap(cur)), t))

TransUnreachable ==
    Ready /\ \E t \in UnreachableTerms :
               Commit(t, trans_unreachable(NewCtx(Unwrap(cur)), t))

TransResume ==
    Ready /\ \E t \in ResumeTerms :
               Commit(t, trans_resume(NewCtx(Unwrap(cur)), t))

TransDrop ==
    Ready /\ \E t \in DropTerms : Commit(t, trans_drop(NewCtx(Unwrap(cur)), t))

TransAssert ==
    Ready /\ \E t \in AssertTerms :
               Commit(t, trans_assert(NewCtx(Unwrap(cur)), t))

TransCall ==
    Ready /\ \E t \in CallTerms : Commit(t, trans_call(NewCtx(Unwrap(cur)), t))

Next ==
    \/ BeginBlock
    \/ TransGoto
    \/ TransSwitchInt
    \/ TransReturn
    \/ TransUnreachable
    \/ TransResume
    \/ TransDrop
    \/ TransAssert
    \/ TransCall

Spec == Init /\ [][Next]_vars

\* The terminators that resolve edges and make calls on their own behalf,
\* in a function whose locals all live in memory.
InitInMemory ==
    /\ Init
    /\ \A l \in Locals : locals[l] = Lvalue(Val("local", 0))

NextEdges ==
    \/ BeginBlock
    \/ TransGoto
    \/ TransSwitchInt
    \/ TransUnreachable
    \/ TransResume
    \/ TransDrop
    \/ TransAssert

SpecEdges == InitInMemory /\ [][NextEdges]_vars

\* A function all of whose blocks end in Return.
NextReturn ==
    \/ BeginBlock
    \/ TransReturn

SpecReturn == Init /\ [][NextReturn]_vars

\* A function all of whose blocks end in Call, under the table-based
\* discipline.
InitTableBased == Init /\ ~msvc

NextCall ==
    \/ BeginBlock
    \/ TransCall

SpecCall == InitTableBased /\ [][NextCall]_vars

\* A function without cleanup blocks, all of whose blocks end in Call.
InitNoCleanup ==
    /\ Init
    /\ \A b \in Blocks : cleanup_kinds[b] = None

SpecCallNoCleanup == InitNoCleanup /\ [][NextCall]_vars

\* The terminators that make calls through do_call, in a function whose
\* locals all live in memory.
NextCalls ==
    \/ BeginBlock
    \/ TransDrop
    \/ TransAssert
    \/ TransCall

SpecCalls == InitInMemory /\ [][NextCalls]_vars

-----------------------------------------------------------------------------
(* What the properties below read off the lowering just done.              *)

\* The funclet region of a block: none, or the block that heads it.
Region(b) == cleanup_kinds[b]

\* A terminator has just been lowered / lowered without a fatal defect.
Lowered == last.term.kind # "None"
Completed == Lowered /\ last.abort = ""

\* The positions <<block, index>> of the instructions emitted.
Positions ==
    UNION { { << b, i >> : i \in 1 .. Len(last.code[b]) } :
            b \in DOMAIN last.code }
InsAt(p) == last.code[p[1]][p[2]]
Emitted(op) == { p \in Positions : InsAt(p).op = op }

\* The indices in last.created of the new blocks of one sort.
Created(tag) == { i \in 1 .. Len(last.created) : last.created[i][1] = tag }

\* The instructions of the block whose terminator was lowered.
SrcCode == last.code[blocks(last.bb)]

Resolutions == 1 .. Len(last.resolved)

\* The successor blocks a terminator names.
Successors(t) ==
    CASE t.kind = "Goto" -> { t.target }
      [] t.kind = "SwitchInt" -> { t.targets[i] : i \in 1 .. Len(t.targets) }
      [] t.kind = "Drop" ->
           { t.target } \cup { t.unwind[i] : i \in 1 .. Len(t.unwind) }
      [] t.kind = "Assert" ->
           { t.target } \cup { t.cleanup[i] : i \in 1 .. Len(t.cleanup) }
      [] t.kind = "Call" ->
           { t.dest[i].target : i \in 1 .. Len(t.dest) }
           \cup { t.cleanup[i] : i \in 1 .. Len(t.cleanup) }
      [] OTHER -> { }

\* The edge from s to t enters a cleanup region from outside any region.
Into(s, t) == ~IsSome(Region(s)) /\ IsSome(Region(t))

\* The edge from s to t leaves a cleanup region for no region.
OutOf(s, t) == IsSome(Region(s)) /\ ~IsSome(Region(t))

\* The edge from s to t joins two funclets of the funclet discipline.
Cross(s, t) ==
    msvc /\ IsSome(Region(s)) /\ IsSome(Region(t)) /\ Region(s) # Region(t)

\* The funclet-exit from the cleanup pad of block s to ll.
FuncletExit(s, ll) ==
    Ins("cleanup_ret", << << "cleanuppad", Unwrap(Region(s)), 0, 0 >>, ll >>)

\* The landing pads made for target t by the lowering just done.
PadsMadeFor(t) == { i \in Created("cleanup") : last.created[i][2] = t }

-----------------------------------------------------------------------------
(* C1 *)

\* C1: over any sequence of terminator lowerings at most one landing pad is
\* ever constructed per target block: the first resolution that needs the
\* pad of a target makes it (as the next new block) and caches it, every
\* later one returns the cached block and makes none, and a cached pad is
\* never replaced.
C1_OnePadPerTarget ==
    /\ \A t \in Blocks :
         /\ built.pads[t] <= 1
         /\ built.pads[t] = 1 => landing_pads[t] = Some(<< "cleanup", t, 0, 0 >>)
    /\ Lowered =>
         /\ \A t \in Blocks :
              /\ IsSome(last.pre.landing_pads[t]) =>
                   /\ landing_pads[t] = last.pre.landing_pads[t]
                   /\ PadsMadeFor(t) = { }
              /\ Cardinality(PadsMadeFor(t))
                   = built.pads[t] - last.pre.built.pads[t]
         /\ \A i \in Resolutions :
              (/\ Into(last.bb, last.resolved[i].target)
                    \/ Cross(last.bb, last.resolved[i].target)
               /\ IsSome(last.resolved[i].ll)) =>
                /\ last.resolved[i].ll = landing_pads[last.resolved[i].target]
                /\ IF IsSome(last.resolved[i].cached)
                   THEN last.resolved[i].ll = last.resolved[i].cached
                   ELSE last.resolved[i].ll =
                          Some(last.created[last.resolved[i].created_before + 1])

\* A pad made while an earlier block was lowered is returned again.
C1_Witness ==
    /\ Lowered /\ ~msvc
    /\ \E i \in Resolutions :
         /\ Into(last.bb, last.resolved[i].target)
         /\ IsSome(last.pre.landing_pads[last.resolved[i].target])
         /\ last.resolved[i].ll = last.pre.landing_pads[last.resolved[i].target]
         /\ built.pads[last.resolved[i].target] = 1

-----------------------------------------------------------------------------
(* C2 *)

\* Every successor of the terminator lies in the region of its block.
SameRegion ==
    /\ Lowered
    /\ Successors(last.term) # { }
    /\ \A t \in Successors(last.term) : Region(t) = Region(last.bb)

\* C2: a terminator all of whose successors lie in the same funclet region
\* as its block (or all in none) creates no trampoline, no landing pad and no
\* funclet-exit: every edge resolves to the target's own block.
C2_SameRegionPlain ==
    SameRegion =>
      /\ Created("trampoline") = { }
      /\ Created("cleanup") = { }
      /\ Emitted("cleanup_ret") = { }
      /\ \A i \in Resolutions :
           /\ last.resolved[i].ll = Some(blocks(last.resolved[i].target))
           /\ ~last.resolved[i].cleanupret

\* An invoke inside a funclet whose two successors are in that funclet.
C2_Witness ==
    /\ SameRegion /\ Completed /\ msvc
    /\ IsSome(Region(last.bb))
    /\ last.term.kind = "Drop"
    /\ IsSome(last.term.unwind)
    /\ Emitted("invoke") # { }
    /\ Len(last.resolved) = 1

-----------------------------------------------------------------------------
(* C3 *)

\* The resolutions of cross-funclet edges that asked for a block handle.
CrossHandles ==
    { i \in Resolutions :
        /\ Cross(last.bb, last.resolved[i].target)
        /\ IsSome(last.resolved[i].ll)
        /\ last.resolved[i].site = "block" }

\* C3: under the funclet discipline a resolved edge between two funclets
\* goes to the target's landing pad and is marked as a funclet-exit; a
\* branch site ends the source block with the funclet-exit and creates no
\* block, a handle site gets a fresh trampoline holding only the
\* funclet-exit, and there are as many distinct trampolines as handle
\* requests.
C3_CrossFunclet ==
    Lowered =>
      /\ \A i \in Resolutions :
           (Cross(last.bb, last.resolved[i].target)
            /\ IsSome(last.resolved[i].ll)) =>
             /\ last.resolved[i].cleanupret
             /\ last.resolved[i].ll = landing_pads[last.resolved[i].target]
             /\ last.resolved[i].ll # Some(blocks(last.resolved[i].target))
             /\ last.resolved[i].site = "br" =>
                  /\ SrcCode # << >>
                  /\ SrcCode[Len(SrcCode)]
                       = FuncletExit(last.bb, Unwrap(last.resolved[i].ll))
                  /\ Len(last.created) = last.resolved[i].created_before
             /\ last.resolved[i].site = "block" =>
                  /\ Len(last.created) > last.resolved[i].created_before
                  /\ last.created[last.resolved[i].created_before + 1]
                       = << "trampoline", last.bb, last.resolved[i].target,
                            last.resolved[i].created_before >>
                  /\ last.code[last.created[last.resolved[i].created_before + 1]]
                       = << FuncletExit(last.bb, Unwrap(last.resolved[i].ll)) >>
      /\ Cardinality(Created("trampoline")) = Cardinality(CrossHandles)
      /\ Cardinality({ last.created[i] : i \in Created("trampoline") })
           = Cardinality(CrossHandles)

\* A switch with two edges to one block of another funclet: two trampolines.
C3_Witness ==
    /\ Completed /\ msvc
    /\ last.term.kind = "SwitchInt"
    /\ \E i, j \in Created("trampoline") :
         /\ i # j
         /\ last.created[i][3] = last.created[j][3]

-----------------------------------------------------------------------------
(* C4 *)

\* C4: resolving an edge from inside a funclet region to a block in no
\* region is fatal under both disciplines: the lowering aborts there, the
\* resolver returns no successor, and after it no instruction is emitted, no
\* block is created and no landing pad is made or cached.
C4_OutOfCleanupFatal ==
    Lowered =>
      \A i \in Resolutions :
        OutOf(last.bb, last.resolved[i].target) =>
          /\ last.abort = "jump out of cleanup?"
          /\ aborted
          /\ last.resolved[i].ll = None
          /\ i = Len(last.resolved)
          /\ Len(last.created) = last.resolved[i].created_before
          /\ Cardinality(Positions) = last.resolved[i].emitted_before
          /\ landing_pads = last.pre.landing_pads
          /\ built.pads = last.pre.built.pads

\* The defect under the table-based discipline, after the branch hint of an
\* assert was emitted.
C4_Witness ==
    /\ Lowered /\ ~msvc
    /\ last.term.kind = "Assert"
    /\ last.resolved # << >>
    /\ OutOf(last.bb, last.resolved[1].target)
    /\ last.resolved[1].emitted_before = 1


-----------------------------------------------------------------------------
(* C5 *)

-----------------------------------------------------------------------------
(* C6 *)

\* C6: a Return whose ABI return slot is ignored or indirect never aborts
\* and emits exactly a void return: no slot of a local is read or changed,
\* no scratch slot is allocated, no block is created.
C6_ReturnVoid ==
    (Lowered /\ last.term.kind = "Return"
     /\ last.term.ret \in { "ignore", "indirect" }) =>
      /\ last.abort = ""
      /\ last.code = (blocks(last.bb) :> << Ins("ret_void", << >>) >>)
      /\ last.reads = { }
      /\ last.allocas = << >>
      /\ last.created = << >>
      /\ locals = last.pre.locals

\* The return local still awaits its value when the Return is lowered.
C6_Witness ==
    /\ Completed
    /\ last.term.kind = "Return"
    /\ last.term.ret = "ignore"
    /\ last.pre.locals[RETURN_POINTER].k = "OperandNone"
    /\ SrcCode = << Ins("ret_void", << >>) >>

-----------------------------------------------------------------------------
(* C7 *)

\* The raw result of a call or an invoke.
RawResults == { Val("llret", 0), Val("invokeret", 0) }

\* The arguments of the call, invoke or intrinsic expansion at position p.
ArgsAt(p) ==
    CASE InsAt(p).op = "call" -> Tail(InsAt(p).x)
      [] InsAt(p).op = "invoke" -> Tail(Tail(Tail(InsAt(p).x)))
      [] OTHER -> InsAt(p).x

\* C7: when the return destination of a call with an indirect return slot is
\* resolved without a fatal defect, exactly one pointer is pushed onto the
\* empty argument list, so that it is argument 0 of the call, invoke or
\* intrinsic expansion emitted; the destination is Nothing or
\* IndirectOperand (of that pointer), never DirectOperand or Store; and the
\* raw result is stored nowhere and assigned to no local.
C7_IndirectReturn ==
    (Lowered /\ last.term.kind = "Call") =>
      \A i \in 1 .. Len(last.retdests) :
        (last.retdests[i].ret = "indirect" /\ last.retdests[i].ok) =>
          /\ Len(last.retdests[i].llargs) = 1
          /\ last.retdests[i].rd.k \in { "Nothing", "IndirectOperand" }
          /\ last.retdests[i].rd.k = "IndirectOperand" =>
               last.retdests[i].rd.v = last.retdests[i].llargs[1]
          /\ \A p \in Emitted("call") \cup Emitted("invoke")
                      \cup Emitted("intrinsic") :
               /\ ArgsAt(p) # << >>
               /\ ArgsAt(p)[1] = last.retdests[i].llargs[1]
          /\ \A p \in Emitted("store") : InsAt(p).x[1] \notin RawResults
          /\ \A l \in Locals :
               locals[l] # last.pre.locals[l] => locals[l].v \notin RawResults

\* An indirect return into an operand local, after two marshaled arguments.
C7_Witness ==
    /\ Completed
    /\ last.term.kind = "Call"
    /\ last.term.ret = "indirect"
    /\ Len(last.retdests) = 1
    /\ last.retdests[1].rd.k = "IndirectOperand"
    /\ \E p \in Emitted("call") : Len(ArgsAt(p)) >= 3
    /\ locals[RETURN_POINTER].k = "OperandSome"

-----------------------------------------------------------------------------
(* C8 *)

\* The Assert just lowered has a condition that is a constant.
ConstCond == Lowered /\ last.term.kind = "Assert" /\ last.term.cond # "dyn"

\* Its condition is a constant that differs from / equals the expected value.
KnownToFail == ConstCond /\ (last.term.cond = "true") # last.term.expected
KnownToHold == ConstCond /\ (last.term.cond = "true") = last.term.expected

\* Its message is a bounds check of a constant index against a constant len.
ConstBounds ==
    /\ last.term.msg.k = "BoundsCheck"
    /\ IsSome(last.term.msg.len) /\ IsSome(last.term.msg.index)

\* The same Assert with a run-time condition, lowered from the same state.
DynAssert ==
    trans_assert(CtxOf(last.bb, last.pre), [last.term EXCEPT !.cond = "dyn"])

\* The instruction is the branch-hint call.
IsExpect(ins) ==
    /\ ins.op = "call" /\ Len(ins.x) = 3
    /\ ins.x[1] = Val("fn:llvm.expect.i1", 0)

\* Two emitted codes agree but for the condition passed to the branch hint.
SameButCond(a, b) ==
    /\ DOMAIN a = DOMAIN b
    /\ \A blk \in DOMAIN a :
         /\ Len(a[blk]) = Len(b[blk])
         /\ \A i \in 1 .. Len(a[blk]) :
              \/ a[blk][i] = b[blk][i]
              \/ /\ blk = blocks(last.bb) /\ i = 1
                 /\ IsExpect(a[blk][i]) /\ IsExpect(b[blk][i])
                 /\ a[blk][i].x[3] = b[blk][i].x[3]

\* The call or invoke at position p calls the bounds-check-failure entry
\* point with (location, index, len).
PanicsBounds(p) ==
    /\ InsAt(p).op \in { "call", "invoke" }
    /\ InsAt(p).x[1] = Val("fn:panic_bounds_check", 0)
    /\ ArgsAt(p) = << Val("panic_bounds_check_loc", last.bb),
                      Val("const", Unwrap(last.term.msg.index)),
                      Val("const", Unwrap(last.term.msg.len)) >>

\* C8: an Assert of a bounds check of constant len and index whose constant
\* condition differs from the expected value, lowered without a fatal
\* defect, warns exactly once at the terminator and lowers the check in
\* full: one new panic block, the branch hint and a conditional branch with
\* the panic block on the failing side, and in the panic block the call of
\* the bounds-check-failure entry point with (location, index, len).  The
\* blocks and instructions are those of the same Assert with a run-time
\* condition.
C8_ConstBoundsCheck ==
    (Completed /\ KnownToFail /\ ConstBounds) =>
      /\ last.warnings = << last.bb >>
      /\ \E n \in Created("panic") :
           /\ Created("panic") = { n }
           /\ Len(SrcCode) = 2
           /\ IsExpect(SrcCode[1])
           /\ SrcCode[2].op = "cond_br"
           /\ SrcCode[2].x[1] = Val("expect", 0)
           /\ SrcCode[2].x[IF last.term.expected THEN 3 ELSE 2]
                = last.created[n]
           /\ SrcCode[2].x[IF last.term.expected THEN 2 ELSE 3]
                # last.created[n]
           /\ last.created[n] \in DOMAIN last.code
           /\ PanicsBounds(<< last.created[n], 1 >>)
      /\ SameButCond(last.code, DynAssert.code)
      /\ last.created = DynAssert.created
      /\ last.allocas = DynAssert.allocas
      /\ DynAssert.abort = ""
      /\ DynAssert.warnings = << >>

\* len = 3, index = 7, with an unwind edge: the panic call is an invoke.
C8_Witness ==
    /\ Completed /\ KnownToFail /\ ConstBounds
    /\ last.term.msg.len = Some(3) /\ last.term.msg.index = Some(7)
    /\ IsSome(last.term.cleanup)
    /\ last.warnings = << last.bb >>
    /\ Emitted("invoke") # { }

-----------------------------------------------------------------------------
(* C9 *)

\* C9 as stated: a warning comes only from an Assert of a bounds check of
\* constant len and index whose constant condition differs from the
\* expected value.
C9_OnlyBoundsCheckWarns ==
    (Lowered /\ last.warnings # << >>) => (KnownToFail /\ ConstBounds)

\* C9, amended: a warning comes only from an Assert whose constant
\* condition differs from the expected value and whose message is a bounds
\* check of constant len and index or an arithmetic overflow (for a
\* negation overflow, only with overflow checks on), and then at most one,
\* at the terminator; an Assert with a generator-resumed message and every
\* other terminator kind never warn.
C9_WarningOnlyIfKnown ==
    (Lowered /\ last.warnings # << >>) =>
      /\ KnownToFail
      /\ \/ ConstBounds
         \/ last.term.msg.k = "Math"
         \/ last.term.msg.k = "MathNeg" /\ last.term.check_overflow
      /\ last.warnings = << last.bb >>

\* An always-failing arithmetic-overflow Assert warns.
C9_Witness ==
    /\ Completed /\ KnownToFail
    /\ last.term.msg.k = "Math"
    /\ last.warnings = << last.bb >>

-----------------------------------------------------------------------------
(* C10 *)

\* No panic block, no branch hint, no call and no warning.
NoPanicPath ==
    /\ Created("panic") = { }
    /\ Emitted("call") = { } /\ Emitted("invoke") = { }
    /\ last.warnings = << >>

\* The block lowered holds one branch and nothing else: a plain branch to
\* the resolved successor, or the funclet-exit to it.
OneBranch ==
    /\ Len(last.resolved) = 1
    /\ last.resolved[1].target = last.term.target
    /\ last.resolved[1].site = "br"
    /\ SrcCode =
         << IF last.resolved[1].cleanupret
            THEN FuncletExit(last.bb, Unwrap(last.resolved[1].ll))
            ELSE Ins("br", << Unwrap(last.resolved[1].ll) >>) >>

-----------------------------------------------------------------------------
(* C11 *)

\* A Drop or a Call of a destructor that is a no-op has just been lowered.
NoOpDrop ==
    /\ Lowered
    /\ \/ last.term.kind = "Drop" /\ last.term.glue = "nop"
       \/ /\ last.term.kind = "Call" /\ last.term.callee = "nop_drop"
          /\ IsSome(last.term.dest)

\* Its continuation target.
Continuation ==
    IF last.term.kind = "Drop" THEN last.term.target
    ELSE Unwrap(last.term.dest).target

\* A Goto to that target, lowered from the same state.
GotoContinuation ==
    trans_goto(CtxOf(last.bb, last.pre),
               [ kind |-> "Goto", target |-> Continuation ])

\* C11: a Drop whose destructor is a no-op, and a Call of a no-op
\* destructor, are lowered as the branch to the continuation target and
\* nothing else: no call or invoke, no slot allocated for an argument or a
\* result, no local read, no return destination resolved, and one edge
\* resolved, the continuation, at the terminator itself, so that the unwind
\* target is never referenced.  What is created and emitted is what a Goto
\* to the continuation creates and emits.
C11_NoOpDropBranches ==
    NoOpDrop =>
      /\ Emitted("call") = { } /\ Emitted("invoke") = { }
      /\ Emitted("load") = { } /\ Emitted("intrinsic") = { }
      /\ last.retdests = << >>
      /\ last.reads = { }
      /\ locals = last.pre.locals
      /\ Created("unreachable") = { } /\ Created("trampoline") = { }
      /\ unreachable_blk = last.pre.unreachable_blk
      /\ Len(last.resolved) = 1
      /\ last.resolved[1].target = Continuation
      /\ last.resolved[1].site = "br"
      /\ Completed =>
           /\ SrcCode =
                << IF last.resolved[1].cleanupret
                   THEN FuncletExit(last.bb, Unwrap(last.resolved[1].ll))
                   ELSE Ins("br", << Unwrap(last.resolved[1].ll) >>) >>
           /\ \A p \in Positions : p[1] # blocks(last.bb) => p[1][1] = "cleanup"
      /\ last.code = GotoContinuation.code
      /\ last.created = GotoContinuation.created
      /\ last.allocas = GotoContinuation.allocas
      /\ last.abort = GotoContinuation.abort

\* A Call of a no-op destructor with an unwind target in another region
\* than its continuation.
C11_Witness ==
    /\ NoOpDrop /\ Completed
    /\ last.term.kind = "Call"
    /\ IsSome(last.term.cleanup)
    /\ Region(Unwrap(last.term.cleanup)) # Region(Continuation)
    /\ SrcCode = << Ins("br", << blocks(Continuation) >>) >>

-----------------------------------------------------------------------------
(* C12 *)

\* A call of a function, a function pointer or a method has been emitted
\* whose ordinary arguments include a fat pointer held as a pair.
FatPairCall ==
    /\ Completed
    /\ last.term.kind = "Call"
    /\ last.term.callee \in { "fn", "fnptr", "virtual" }
    /\ ~last.term.rust_call
    /\ \E i \in 1 .. Len(last.term.args) :
         last.term.args[i].val = "Pair" /\ last.term.args[i].fat

\* The scalars of the operands: data pointer and metadata of a fat pointer
\* held as a pair, the operand itself otherwise.
RECURSIVE Scalars(_)
Scalars(args) ==
    IF args = << >> THEN << >>
    ELSE (IF Head(args).val = "Pair" /\ Head(args).fat
          THEN << Val("op", Head(args).id), Val("op", Head(args).id + 1) >>
          ELSE << Val("op", Head(args).id) >>) \o Scalars(Tail(args))

\* The arguments at p after the pointer of an indirect return, if any.
PassedAt(p) ==
    IF last.retdests # << >> /\ last.retdests[1].llargs # << >>
    THEN Tail(ArgsAt(p)) ELSE ArgsAt(p)

\* C12: a fat pointer held as a pair is passed as two scalar arguments, the
\* data pointer and then the metadata, each in an ABI slot of its own.  The
\* function pointer of a virtual call is the method looked up through the
\* metadata exactly when the fat pointer is the first argument, and the
\* lookup is then the first thing emitted; a fat pointer at a later
\* position sets no function pointer.
C12_FatPointerSplit ==
    FatPairCall =>
      /\ Len(Scalars(last.term.args)) = Len(last.term.abi)
      /\ \E p \in Emitted("call") \cup Emitted("invoke") :
           /\ Emitted("call") \cup Emitted("invoke") = { p }
           /\ p[1] = blocks(last.bb)
           /\ PassedAt(p) = Scalars(last.term.args)
           /\ InsAt(p).x[1] =
                IF /\ last.term.callee = "virtual"
                   /\ last.term.args[1].val = "Pair" /\ last.term.args[1].fat
                THEN Val("llmeth", 0)
                ELSE IF last.term.callee = "fnptr" THEN Val("callee", 0)
                ELSE Val("fn:get_fn", 0)
      /\ IF /\ last.term.callee = "virtual"
            /\ last.term.args[1].val = "Pair" /\ last.term.args[1].fat
         THEN /\ Emitted("get_fn") = { << blocks(last.bb), 1 >> }
              /\ SrcCode[1].x = << Val("meta", 0) >>
         ELSE Emitted("get_fn") = { }

\* A method called on a trait object: the receiver is the first argument.
C12_Witness ==
    /\ FatPairCall
    /\ last.term.callee = "virtual"
    /\ Len(last.term.args) = 1
    /\ \E p \in Emitted("call") :
         /\ InsAt(p).x[1] = Val("llmeth", 0)
         /\ Len(PassedAt(p)) = 2

-----------------------------------------------------------------------------
(* C13 *)

\* The return destination of the call lowered, resolved again.
ResolvedDest ==
    IF IsSome(last.term.dest)
    THEN make_return_dest(CtxOf(last.bb, last.pre), Unwrap(last.term.dest).lv,
                          last.term.ret, << >>, is_intrinsic_callee(last.term))
    ELSE Dest(CtxOf(last.bb, last.pre), << >>, Nothing)

\* The marshaling of the call lowered when it comes to the trailing tuple.
BeforeTuple ==
    first_args(Marshal(ResolvedDest.c, blocks(last.bb), ResolvedDest.llargs,
                       0, None, FALSE, last.term.abi),
               SubSeq(last.term.args, 1, Len(last.term.args) - 1), FALSE)

\* A call of a function with the "rust-call" ABI has come to its tuple.
TupleCall ==
    /\ Lowered
    /\ last.term.kind = "Call"
    /\ last.term.callee = "fn"
    /\ last.term.rust_call
    /\ last.term.args # << >>
    /\ Ok(BeforeTuple.c)

TheTuple == last.term.args[Len(last.term.args)]

\* The field a passed value is the value of (data pointer n0, metadata n1 for
\* field n/10 - 1), through the scratch slot it was stored in if need be; 0
\* for padding.
FieldOfValue(a, v) ==
    IF v[1] = "undef" THEN 0
    ELSE IF v[2] >= 10 THEN v[2]
    ELSE LET code == a.c.code[a.b]
             stores == { i \in 1 .. Len(code) :
                           /\ code[i].op = "store"
                           /\ code[i].x[2] = Val("arg", v[2]) }
         IN  IF stores = { } THEN -1
             ELSE code[CHOOSE i \in stores : TRUE].x[1][2]

\* What marshaling from a0 to a1 passed: the slots consumed and the fields
\* of the values pushed, in order.
Passed(a0, a1) ==
    [ slots |-> a1.idx - a0.idx,
      args  |-> [ i \in 1 .. (Len(a1.llargs) - Len(a0.llargs)) |->
                    FieldOfValue(a1, a1.llargs[Len(a0.llargs) + i]) ],
      ok    |-> Ok(a1.c) ]

\* The fields from field n on as operands of their own, a fat pointer as a
\* pair and any other field held as val.
RECURSIVE FieldOperands(_, _, _)
FieldOperands(fields, n, val) ==
    IF fields = << >> THEN << >>
    ELSE << IF Head(fields).fat THEN Op("Pair", TRUE, FALSE, 10 * (n + 1))
            ELSE Op(val, FALSE, FALSE, 10 * (n + 1)) >>
         \o FieldOperands(Tail(fields), n + 1, val)

\* The representations a tuple of these fields may have: a pair has two
\* immediate fields, an immediate aggregate has no fat pointer.
Admits(val, fields) ==
    CASE val = "Pair" ->
           /\ Len(fields) = 2
           /\ \A i \in 1 .. Len(fields) : ~fields[i].fat
      [] val = "Immediate" ->
           /\ Len(fields) # 2
           /\ \A i \in 1 .. Len(fields) : ~fields[i].fat
      [] OTHER -> TRUE

\* C13: the trailing tuple of a "rust-call" call consumes the same ABI slots
\* and passes the values of the same fields in the same order, padding
\* included, whether it is held in memory, as a pair or as an immediate
\* aggregate, and these are what its fields passed one by one as ordinary
\* arguments (held in memory or immediate) consume and pass; the call
\* emitted has the arguments so marshaled.
C13_UntupledAsSeparate ==
    TupleCall =>
      /\ Admits(TheTuple.val, TheTuple.fields)
      /\ \A val \in { "Ref", "Pair", "Immediate" } :
           Admits(val, TheTuple.fields) =>
             \A sep \in { "Ref", "Immediate" } :
               /\ Passed(BeforeTuple,
                         trans_arguments_untupled(
                           BeforeTuple, Tuple(val, TheTuple.fields)))
                  = Passed(BeforeTuple,
                           first_args(BeforeTuple,
                                      FieldOperands(TheTuple.fields, 0, sep),
                                      FALSE))
               /\ Ok(trans_arguments_untupled(
                       BeforeTuple, Tuple(val, TheTuple.fields)).c)
      /\ BeforeTuple.idx
           + Passed(BeforeTuple,
                    trans_arguments_untupled(BeforeTuple, TheTuple)).slots
         = Len(last.term.abi)
      /\ \E p \in Emitted("call") :
           /\ Emitted("call") = { p }
           /\ ArgsAt(p) = trans_arguments_untupled(BeforeTuple,
                                                   TheTuple).llargs

\* A pair of two fields, the first passed through a cast and the second
\* indirectly after padding.
C13_Witness ==
    /\ TupleCall
    /\ Completed
    /\ TheTuple.val = "Pair"
    /\ last.term.abi[1].mode = "cast"
    /\ Passed(BeforeTuple,
              trans_arguments_untupled(BeforeTuple, TheTuple))
       = [ slots |-> 2, args |-> << 10, 0, 20 >>, ok |-> TRUE ]

-----------------------------------------------------------------------------
(* C14 *)

\* A call that resolves its return destination has been lowered, and the
\* destination is a local that held a defined operand.
AssignedDest ==
    /\ Lowered
    /\ last.term.kind = "Call"
    /\ last.term.callee \notin { "transmute", "nop_drop" }
    /\ IsSome(last.term.dest)
    /\ Unwrap(last.term.dest).lv.k = "Local"
    /\ last.pre.locals[Unwrap(last.term.dest).lv.index].k = "OperandSome"

\* No terminator changes a local that holds a defined operand.
OperandsKept ==
    Lowered =>
      \A l \in Locals :
        last.pre.locals[l].k = "OperandSome" => locals[l] = last.pre.locals[l]

\* C14: resolving the return destination of a call for a local that already
\* holds a defined operand is a fatal defect whatever the return slot
\* (ignored, direct, cast, indirect) and whether or not the callee is an
\* intrinsic; and no local holding a defined operand is ever changed.
C14_AssignedAlwaysFatal ==
    /\ AssignedDest => last.abort = "lvalue local already assigned to"
    /\ OperandsKept

\* C14, amended: the defect is raised, before anything is emitted or
\* allocated, for every return slot that is not ignored, intrinsic or not;
\* with an ignored return slot the destination resolves to Nothing without
\* the local being looked at, and the call is emitted.  No local holding a
\* defined operand is ever changed.
C14_AssignedFatalUnlessIgnored ==
    /\ AssignedDest =>
         /\ Len(last.retdests) = 1
         /\ last.retdests[1].rd = Nothing
         /\ last.retdests[1].llargs = << >>
         /\ IF is_ignore(last.term.ret)
            THEN /\ last.retdests[1].ok
                 /\ last.abort # "lvalue local already assigned to"
                 /\ last.reads = { }
                 /\ Emitted("call") \cup Emitted("intrinsic") # { }
            ELSE /\ last.abort = "lvalue local already assigned to"
                 /\ Positions = { }
                 /\ last.allocas = << >>
                 /\ last.created = << >>
    /\ OperandsKept

\* A second call into the local an earlier call assigned, the callee an
\* intrinsic and the return indirect.
C14_Witness ==
    /\ AssignedDest
    /\ last.term.callee = "intrinsic"
    /\ last.term.ret = "indirect"
    /\ last.pre.locals[RETURN_POINTER] = Operand(Val("llret", 0))
    /\ last.abort = "lvalue local already assigned to"

-----------------------------------------------------------------------------
(* C15 *)

\* A call that resolves a return destination has been lowered.
DestResolved ==
    /\ Lowered
    /\ last.term.kind = "Call"
    /\ last.term.callee \notin { "transmute", "nop_drop" }
    /\ IsSome(last.term.dest)

TheDest == Unwrap(last.term.dest).lv
TheResolution == last.retdests[1]

\* The destination is a local no operand has been assigned to yet.
DestPending ==
    TheDest.k = "Local" /\ last.pre.locals[TheDest.index].k = "OperandNone"

\* The address of a destination held in memory.
DestAddress ==
    IF TheDest.k = "Local" THEN last.pre.locals[TheDest.index].v
    ELSE Val("place", 0)

DestInMemory ==
    TheDest.k = "Place" \/ last.pre.locals[TheDest.index].k = "Lvalue"

\* C15: the return destination resolves to DirectOperand exactly when the
\* destination is a local still pending, the return slot is neither ignored
\* nor indirect and the callee is no intrinsic; to IndirectOperand, of a
\* scratch slot allocated for it, exactly when the destination is a local
\* still pending, the return slot is not ignored, and the return is indirect
\* or the callee an intrinsic; to Nothing whenever the return slot is
\* ignored; and to Store of the destination's address when the destination
\* is in memory and the return slot is neither ignored nor indirect.
C15_ResolverChoice ==
    DestResolved =>
      /\ Len(last.retdests) = 1
      /\ TheResolution.rd.k = "DirectOperand"
           <=> /\ DestPending
               /\ ~is_ignore(last.term.ret) /\ ~is_indirect(last.term.ret)
               /\ ~is_intrinsic_callee(last.term)
      /\ TheResolution.rd.k = "DirectOperand"
           => /\ TheResolution.rd.index = TheDest.index
              /\ last.allocas = << >> \/ last.allocas[1][1] # "tmp_ret"
                 \/ has_cast(last.term.ret)
      /\ TheResolution.rd.k = "IndirectOperand"
           <=> /\ DestPending
               /\ ~is_ignore(last.term.ret)
               /\ is_indirect(last.term.ret)
                  \/ is_intrinsic_callee(last.term)
      /\ TheResolution.rd.k = "IndirectOperand"
           => /\ TheResolution.rd = IndirectOperand(Val("tmp_ret", 0),
                                                    TheDest.index)
              /\ last.allocas # << >>
              /\ last.allocas[1] = Val("tmp_ret", 0)
              /\ TheResolution.llargs =
                   IF is_indirect(last.term.ret) THEN << Val("tmp_ret", 0) >>
                   ELSE << >>
      /\ is_ignore(last.term.ret)
           => /\ TheResolution.rd = Nothing
              /\ TheResolution.ok
              /\ TheResolution.llargs = << >>
      /\ ( /\ DestInMemory
           /\ ~is_ignore(last.term.ret) /\ ~is_indirect(last.term.ret) )
           => /\ TheResolution.rd = Store(DestAddress)
              /\ TheResolution.ok
              /\ TheResolution.llargs = << >>

\* An intrinsic with a direct return into a pending local: the result goes
\* through a scratch slot and is loaded into the local.
C15_Witness ==
    /\ DestResolved
    /\ Completed
    /\ DestPending
    /\ last.term.callee = "intrinsic"
    /\ last.term.ret = "direct"
    /\ TheResolution.rd.k = "IndirectOperand"
    /\ locals[TheDest.index] = Operand(Val("loaded", 0))

-----------------------------------------------------------------------------
(* C16 *)

AssertLowered == Lowered /\ last.term.kind = "Assert"

\* A negation-overflow assert lowered with overflow checking off.
NegCarveOut ==
    /\ AssertLowered
    /\ ~last.term.check_overflow
    /\ last.term.msg.k = "MathNeg"

\* What Goto to the success target does from the same state.
GotoSuccess ==
    trans_goto(CtxOf(last.bb, last.pre),
               [ kind |-> "Goto", target |-> last.term.target ])

\* The lowering is the branch to the success target and nothing else.
OnlyBranches ==
    /\ NoPanicPath
    /\ last.code = GotoSuccess.code
    /\ last.created = GotoSuccess.created
    /\ last.abort = GotoSuccess.abort
    /\ Len(last.resolved) = 1
    /\ last.resolved[1].target = last.term.target
    /\ last.resolved[1].site = "br"

\* The lowering has a panic block, the conditional branch of the block
\* lowered to it, and the call of the panic entry point in it.
HasPanicPath ==
    /\ \E i \in Created("panic") : Created("panic") = { i }
    /\ \E p \in Emitted("cond_br") :
         /\ Emitted("cond_br") = { p }
         /\ p[1] = blocks(last.bb)
         /\ \E i \in Created("panic") :
              last.created[i] \in { InsAt(p).x[2], InsAt(p).x[3] }
    /\ \E p \in Emitted("call") \cup Emitted("invoke") :
         /\ p[1][1] = "panic"
         /\ InsAt(p).x[1] = panic_fn(last.term)

-----------------------------------------------------------------------------
(* C17 *)

SwitchLowered == Completed /\ last.term.kind = "SwitchInt"

\* h is the block handle of the k-th edge resolved, and that edge is the one
\* to target t: the block resolved, or the trampoline that leaves the
\* funclet for it.
EdgeTo(h, k, t) ==
    /\ k \in Resolutions
    /\ last.resolved[k].target = t
    /\ IF last.resolved[k].cleanupret
       THEN /\ h[1] = "trampoline"
            /\ h \in DOMAIN last.code
            /\ last.code[h] =
                 << FuncletExit(last.bb, Unwrap(last.resolved[k].ll)) >>
       ELSE h = Unwrap(last.resolved[k].ll)

\* The successor a conditional branch takes when its condition is d.
TakenOn(ins, d) == IF d = 1 THEN ins.x[2] ELSE ins.x[3]

-----------------------------------------------------------------------------
(* C18 *)

\* A terminator that may come to do_call has been lowered.
MayCall == Lowered /\ last.term.kind \in { "Drop", "Assert", "Call" }

\* Its unwind target and its continuation, if any.
UnwindOf ==
    IF last.term.kind = "Drop" THEN last.term.unwind ELSE last.term.cleanup

ContinuationOf ==
    CASE last.term.kind = "Drop" -> Some(last.term.target)
      [] last.term.kind = "Assert" -> None
      [] OTHER -> IF IsSome(last.term.dest)
                  THEN Some(Unwrap(last.term.dest).target) ELSE None

\* The calls and invokes emitted by do_call: all but the branch hint.
DoCalls ==
    { p \in Emitted("call") \cup Emitted("invoke") : ~IsExpect(InsAt(p)) }

\* The terminator is one that calls: a Drop with a destructor, an Assert not
\* known to hold, a Call of a function, function pointer, method or
\* drop_in_place.
Calls ==
    CASE last.term.kind = "Drop" -> last.term.glue # "nop"
      [] last.term.kind = "Assert" -> ~assert_skips(last.term)
      [] OTHER -> last.term.callee \in { "fn", "fnptr", "virtual",
                                         "drop_in_place" }

\* C18: what do_call emits is an invoke exactly when the terminator has an
\* unwind target and a plain call otherwise.  The normal successor of an
\* invoke is the continuation block when there is a destination and the
\* function's unreachable block when there is none; that block is made at
\* most once in a function, holds one unreachable instruction, and is used
\* again by every later invoke without a destination.  A plain call without
\* a destination is followed by an unreachable instruction that ends the
\* block.
C18_InvokeIffUnwind ==
    /\ built.unreach <= 1
    /\ MayCall =>
         /\ \A p \in DoCalls :
              /\ DoCalls = { p }
              /\ InsAt(p).op = "invoke" <=> IsSome(UnwindOf)
              /\ InsAt(p).op = "invoke" =>
                   IF IsSome(ContinuationOf)
                   THEN /\ InsAt(p).x[2] = blocks(Unwrap(ContinuationOf))
                        /\ Created("unreachable") = { }
                        /\ unreachable_blk = last.pre.unreachable_blk
                   ELSE /\ unreachable_blk = Some(InsAt(p).x[2])
                        /\ InsAt(p).x[2][1] = "unreachable"
                        /\ IF IsSome(last.pre.unreachable_blk)
                           THEN /\ unreachable_blk = last.pre.unreachable_blk
                                /\ Created("unreachable") = { }
                           ELSE /\ \E i \in Created("unreachable") :
                                     /\ Created("unreachable") = { i }
                                     /\ last.created[i] = InsAt(p).x[2]
                                /\ last.code[InsAt(p).x[2]] =
                                     << Ins("unreachable", << >>) >>
              /\ InsAt(p).op = "call" =>
                   /\ Created("unreachable") = { }
                   /\ unreachable_blk = last.pre.unreachable_blk
                   /\ ~IsSome(ContinuationOf) =>
                        /\ Len(last.code[p[1]]) = p[2] + 1
                        /\ last.code[p[1]][p[2] + 1] = Ins("unreachable", << >>)
         /\ (Completed /\ Calls) => DoCalls # { }
         /\ ~Calls => DoCalls = { }

\* A second panic call with an unwind target: the invoke goes on to the
\* unreachable block an earlier terminator made.
C18_Witness ==
    /\ MayCall
    /\ Completed
    /\ last.term.kind = "Assert"
    /\ IsSome(last.pre.unreachable_blk)
    /\ \E p \in Emitted("invoke") :
         InsAt(p).x[2] = Unwrap(last.pre.unreachable_blk)

-----------------------------------------------------------------------------
(* C19 *)

\* A Drop whose destructor is not a no-op has been lowered.
DropCalls ==
    Lowered /\ last.term.kind = "Drop" /\ last.term.glue # "nop"

\* The destructor call at p goes on to the Drop's target, and unwinds to the
\* Drop's unwind target when there is one.
DropEdges(p) ==
    IF IsSome(last.term.unwind)
    THEN /\ InsAt(p).op = "invoke"
         /\ InsAt(p).x[2] = blocks(last.term.target)
         /\ Len(last.resolved) = 1
         /\ last.resolved[1].site = "block"
         /\ EdgeTo(InsAt(p).x[3], 1, Unwrap(last.term.unwind))
    ELSE /\ InsAt(p).op = "call"
         /\ Len(last.resolved) = 1
         /\ last.resolved[1].site = "br"
         /\ last.resolved[1].target = last.term.target
         /\ Len(SrcCode) = p[2] + 1
         /\ SrcCode[p[2] + 1] =
              IF last.resolved[1].cleanupret
              THEN FuncletExit(last.bb, Unwrap(last.resolved[1].ll))
              ELSE Ins("br", << Unwrap(last.resolved[1].ll) >>)

\* The destructor call at p has the callee of the Drop: the destructor slot
\* of the vtable for a trait object, the resolved function otherwise.
DropCallee(p) ==
    InsAt(p).x[1] = IF last.term.glue = "dynamic"
                    THEN Val("fn:vtable_destructor", 0)
                    ELSE Val("fn:drop_in_place", 0)

\* C19 as stated: the destructor is called with the address of the value,
\* and with its metadata as second argument exactly when the value has
\* metadata; the call goes on to the target and unwinds to the unwind
\* target; the callee of a trait object is the vtable's destructor slot.
C19_MetadataIfCarried ==
    (DropCalls /\ Completed) =>
      \E p \in DoCalls :
        /\ DoCalls = { p }
        /\ p[1] = blocks(last.bb)
        /\ ArgsAt(p) = IF last.term.has_extra
                       THEN << Val("llval", 0), Val("llextra", 0) >>
                       ELSE << Val("llval", 0) >>
        /\ DropEdges(p)
        /\ DropCallee(p)

\* C19, amended: the metadata is the second argument exactly when the value
\* has metadata and is not a trait object; the destructor of a trait object
\* gets the address alone.
C19_MetadataUnlessDynamic ==
    (DropCalls /\ Completed) =>
      \E p \in DoCalls :
        /\ DoCalls = { p }
        /\ p[1] = blocks(last.bb)
        /\ ArgsAt(p) = IF last.term.has_extra /\ last.term.glue # "dynamic"
                       THEN << Val("llval", 0), Val("llextra", 0) >>
                       ELSE << Val("llval", 0) >>
        /\ DropEdges(p)
        /\ DropCallee(p)

\* The Drop of a trait object: the vtable's destructor is called with the
\* address alone.
C19_Witness ==
    /\ DropCalls
    /\ Completed
    /\ last.term.glue = "dynamic"
    /\ last.term.has_extra
    /\ SrcCode[1] = Ins("call", << Val("fn:vtable_destructor", 0),
                                   Val("llval", 0) >>)

-----------------------------------------------------------------------------
(* C20 *)

\* The personality slots the lowering just done allocated.
SlotsAllocated ==
    { i \in 1 .. Len(last.allocas) : last.allocas[i][1] = "personalityslot" }

ResumeLowered == Lowered /\ last.term.kind = "Resume"

\* The instructions of a table-based Resume that reads the payload from slot.
ResumeCode(slot) ==
    IF last.term.custom_unwind_resume
    THEN << Ins("load", << slot >>), Ins("lifetime_end", << slot >>),
            Ins("extract_value", << Val("lp", 0) >>),
            Ins("call", << Val("fn:eh_unwind_resume", 0), Val("exc_ptr", 0) >>),
            Ins("unreachable", << >>) >>
    ELSE << Ins("load", << slot >>), Ins("lifetime_end", << slot >>),
            Ins("resume", << Val("lp", 0) >>) >>

\* C20: a function has at most one personality slot, allocated at its first
\* use by a landing pad or a Resume and never replaced.  Every landing pad
\* made stores its payload into that slot; a Resume in a block without a
\* cleanup pad loads from that slot, ends its lifetime and resumes (or calls
\* the unwind-resume entry point and ends in unreachable); a Resume in a
\* block with a cleanup pad is one funclet-exit without a successor, and
\* allocates, reads and writes no slot.
C20_OnePersonalitySlot ==
    /\ built.slots <= 1
    /\ IsSome(llpersonalityslot) <=> built.slots = 1
    /\ Lowered =>
         /\ IF IsSome(last.pre.llpersonalityslot)
            THEN /\ llpersonalityslot = last.pre.llpersonalityslot
                 /\ SlotsAllocated = { }
            ELSE \A i \in SlotsAllocated :
                   /\ SlotsAllocated = { i }
                   /\ llpersonalityslot = Some(last.allocas[i])
         /\ \A i \in Created("cleanup") :
              /\ IsSome(llpersonalityslot)
              /\ last.code[last.created[i]] =
                   << Ins("landing_pad", << >>), Ins("set_cleanup", << >>),
                      Ins("lifetime_start", << Unwrap(llpersonalityslot) >>),
                      Ins("store", << Unwrap(llpersonalityslot) >>),
                      Ins("br", << blocks(last.created[i][2]) >>) >>
    /\ ResumeLowered =>
         /\ Completed
         /\ last.created = << >>
         /\ DOMAIN last.code = { blocks(last.bb) }
         /\ IF IsSome(cleanup_pad(last.bb))
            THEN /\ SrcCode = << Ins("cleanup_ret",
                                     << Unwrap(cleanup_pad(last.bb)) >>) >>
                 /\ llpersonalityslot = last.pre.llpersonalityslot
                 /\ last.allocas = << >>
            ELSE /\ IsSome(llpersonalityslot)
                 /\ SrcCode = ResumeCode(Unwrap(llpersonalityslot))

\* A Resume that loads from the slot a landing pad allocated before.
C20_Witness ==
    /\ ResumeLowered
    /\ ~IsSome(cleanup_pad(last.bb))
    /\ IsSome(last.pre.llpersonalityslot)
    /\ \E b \in Blocks : IsSome(landing_pads[b])
    /\ SrcCode[1] = Ins("load", << Unwrap(last.pre.llpersonalityslot) >>)

-----------------------------------------------------------------------------
(* C21 *)

\* The instructions that end a block.
Enders ==
    { "br", "cond_br", "switch", "ret", "ret_void", "unreachable", "invoke",
      "resume", "cleanup_ret" }

\* The blocks the lowering just done wrote to.
Written == { b \in DOMAIN last.code : last.code[b] # << >> }

\* code holds one block-ending instruction, and it is the last.
EndedOnce(code) ==
    /\ code # << >>
    /\ code[Len(code)].op \in Enders
    /\ \A i \in 1 .. (Len(code) - 1) : code[i].op \notin Enders

\* An invoke with a destination has been emitted.
InvokedOn ==
    /\ last.term.kind \in { "Drop", "Call" }
    /\ Emitted("invoke") # { }
    /\ IsSome(ContinuationOf)

\* The instructions store_return emits after such an invoke.
ForwardLen ==
    IF ~InvokedOn \/ last.term.kind = "Drop" THEN 0
    ELSE CASE last.retdests[1].rd.k \in { "Store", "IndirectOperand" } -> 1
           [] last.retdests[1].rd.k = "DirectOperand" ->
                IF has_cast(last.term.ret) THEN 2 ELSE 0
           [] OTHER -> 0

\* Block b is the continuation such an invoke forwards its result into.
ForwardedInto(b) ==
    InvokedOn /\ ForwardLen > 0 /\ b = blocks(Unwrap(ContinuationOf))

\* The instructions of block b but for the result forwarded into it.
Body(b) ==
    IF ForwardedInto(b)
    THEN SubSeq(last.code[b], 1, Len(last.code[b]) - ForwardLen)
    ELSE last.code[b]

\* C21 as stated: a lowering that does not abort leaves every block it
\* wrote to with one block-ending instruction, emitted last.
C21_EveryBlockEnded ==
    Completed => \A b \in Written : EndedOnce(last.code[b])

\* C21, amended: the same but for the continuation block of an invoke whose
\* result is stored or loaded into its destination: those instructions are
\* written at the end of the continuation block, after the invoke, and end
\* no block.  The block lowered, every panic block, trampoline, landing pad
\* and unreachable block has one block-ending instruction, emitted last,
\* once the forwarded result is set aside.
C21_EveryBlockEndedButForwarded ==
    Completed =>
      /\ blocks(last.bb) \in Written
      /\ EndedOnce(Body(blocks(last.bb)))
      /\ \A b \in Written :
           /\ Len(last.code[b]) >= ForwardLen \/ ~ForwardedInto(b)
           /\ \/ EndedOnce(Body(b))
              \/ /\ ForwardedInto(b)
                 /\ b # blocks(last.bb)
                 /\ Body(b) = << >>
           /\ ForwardedInto(b) =>
                \A i \in (Len(Body(b)) + 1) .. Len(last.code[b]) :
                  last.code[b][i].op \in { "store", "load" }

\* A Call with an unwind target whose result is stored to memory: the store
\* is written to the continuation block, which gets no block-ending
\* instruction.
C21_Witness ==
    /\ Completed
    /\ last.term.kind = "Call"
    /\ InvokedOn
    /\ Unwrap(ContinuationOf) # last.bb
    /\ blocks(Unwrap(ContinuationOf)) \in Written
    /\ last.code[blocks(Unwrap(ContinuationOf))] =
         << Ins("store", << Val("invokeret", 0), Val("place", 0) >>) >>
    /\ EndedOnce(SrcCode)

-----------------------------------------------------------------------------
(* C22 *)

\* A call to an intrinsic that reaches the resolution of its destination.
IntrinsicCall ==
    /\ Lowered
    /\ last.term.kind = "Call"
    /\ last.term.callee \in { "drop_in_place", "intrinsic", "simd_shuffle" }

\* A call lowered through the intrinsic expansion.
Expanded ==
    /\ IntrinsicCall
    /\ last.term.callee \in { "intrinsic", "simd_shuffle" }
    /\ Emitted("intrinsic") # {}

\* The expansion's destination is a pending local whose return is not ignored.
ScratchCase ==
    /\ Expanded
    /\ IsSome(last.term.dest)
    /\ DestPending
    /\ ~is_ignore(last.term.ret)

\* The instruction after position p of the same block is a load of slot.
ReloadedAfter(p, slot) ==
    /\ p[2] < Len(last.code[p[1]])
    /\ last.code[p[1]][p[2] + 1] = Ins("load", << slot >>)

\* C22: a call to an intrinsic never resolves its return destination to
\* DirectOperand and never aborts with "Cannot use direct operand with an
\* intrinsic call"; and when the destination is a local still pending, the
\* expansion is handed the tmp_ret scratch slot of the resolution as its
\* destination, the instruction right after the expansion loads from that
\* same slot, and the local's operand is the value loaded from it.
C22_IntrinsicScratchReloaded ==
    /\ IntrinsicCall =>
          /\ last.abort # "Cannot use direct operand with an intrinsic call"
          /\ \A i \in 1 .. Len(last.retdests) :
                last.retdests[i].rd.k # "DirectOperand"
    /\ ScratchCase =>
          /\ TheResolution.rd.k = "IndirectOperand"
          /\ TheResolution.rd.v[1] = "tmp_ret"
          /\ \E j \in 1 .. Len(last.allocas) :
                last.allocas[j] = TheResolution.rd.v
          /\ \A p \in Emitted("intrinsic") :
                /\ p[1] = blocks(last.bb)
                /\ InsAt(p).x # << >>
                /\ InsAt(p).x[1] = TheResolution.rd.v
                /\ ReloadedAfter(p, InsAt(p).x[1])
          /\ Emitted("load") # {}
          /\ \A q \in Emitted("load") : InsAt(q).x = << TheResolution.rd.v >>
          /\ locals[TheDest.index] =
                Operand(Val("loaded", TheResolution.rd.v[2]))

C22_Witness ==
    /\ ScratchCase
    /\ Completed
    /\ last.term.ret = "direct"
    /\ last.term.args # << >>
    /\ SrcCode[1].op = "intrinsic"
    /\ SrcCode[1].x[1] = Val("tmp_ret", 0)
    /\ SrcCode[2] = Ins("load", << Val("tmp_ret", 0) >>)
    /\ locals[TheDest.index] = Operand(Val("loaded", 0))

=============================================================================
